---- MODULE Spec2Model ----
(***************************************************************************)
(* The Book/Author catalogue API of advanced-api-project (api/models.py,   *)
(* api/serializers.py, api/filters.py, api/views.py, api/urls.py) as a     *)
(* state machine: the record store, one action per HTTP handler, and the   *)
(* query pipeline of the list endpoint.                                    *)
(*                                                                         *)
(* Text is a sequence of one-character strings, so that trimming, case     *)
(* folding, substring search and collation are computed, not assumed.  An  *)
(* ordering expression is a sequence of symbols: "," "-" " " and whole     *)
(* words such as "title".                                                  *)
(***************************************************************************)
EXTENDS Integers, Sequences, FiniteSets, TLC

VARIABLES authors, books, nextId, nextAuthorId, now, request, response, pc,
          flight, following, posts, comments, blogPosts, emails, shelves

\* The state of the other projects of the repository (social_media_api,
\* django_blog, bookshelf, relationship_app) and the requests of the
\* catalogue API that are handled concurrently.
others == <<flight, following, posts, comments, blogPosts, emails, shelves>>

\* The state of the catalogue API.
api == <<authors, books, nextId, nextAuthorId, now>>

vars == <<authors, books, nextId, nextAuthorId, now, request, response, pc,
          flight, following, posts, comments, blogPosts, emails, shelves>>

(***************************************************************************)
(* Bounds of the model and constants of the program.                       *)
(***************************************************************************)
\* The calendar year in the initial state.
StartYear == 2026

\* Number of Books the create endpoint may insert in one behaviour.
MaxBooks == 2

\* Number of Authors the admin site may bring the store to, the two of the
\* initial state included.
MaxAuthors == 3

\* Number of query parameters of one list request.
MaxParams == 2

\* Length, in symbols, of an ordering expression given to get_ordering.
MaxOrderingLen == 5

\* views.py:114  queryset.filter(publication_year__lt=1950)
ClassicYear == 1950

\* views.py:109  queryset.filter(publication_year__gte=current_year - 10)
RecentSpan == 10

\* views.py:225  [:5]
RelatedLimit == 5

\* views.py:189  'page_size': 20
PageSize == 20

\* Number of Books in the largest store that is read page by page.
MaxPagedBooks == 22

LastYear == StartYear + 1

(***************************************************************************)
(* Text.                                                                   *)
(***************************************************************************)
Min(a, b) == IF a <= b THEN a ELSE b

\* str.lower() on one character: the capital letters of the texts of the
\* model become small, every other character stays.
LowerChar(c) ==
    CASE c = "A" -> "a"
      [] c = "B" -> "b"
      [] c = "E" -> "e"
      [] c = "F" -> "f"
      [] c = "N" -> "n"
      [] c = "R" -> "r"
      [] c = "T" -> "t"
      [] c = "U" -> "u"
      [] OTHER -> c

Lower(s) == [i \in 1..Len(s) |-> LowerChar(s[i])]

\* Code point of a character: the store collates text by code point.
Ord(c) ==
    CASE c = " " -> 32
      [] c = "," -> 44
      [] c = "-" -> 45
      [] c = "0" -> 48
      [] c = "1" -> 49
      [] c = "2" -> 50
      [] c = "3" -> 51
      [] c = "4" -> 52
      [] c = "5" -> 53
      [] c = "6" -> 54
      [] c = "7" -> 55
      [] c = "8" -> 56
      [] c = "9" -> 57
      [] c = "@" -> 64
      [] c = "A" -> 65
      [] c = "B" -> 66
      [] c = "E" -> 69
      [] c = "F" -> 70
      [] c = "N" -> 78
      [] c = "R" -> 82
      [] c = "T" -> 84
      [] c = "U" -> 85
      [] c = "a" -> 97
      [] c = "b" -> 98
      [] c = "e" -> 101
      [] c = "f" -> 102
      [] c = "l" -> 108
      [] c = "n" -> 110
      [] c = "r" -> 114
      [] c = "s" -> 115
      [] c = "t" -> 116
      [] c = "u" -> 117
      [] c = "x" -> 120
      [] c = "y" -> 121

\* s sorts strictly before t.
StrLess(s, t) ==
    \E i \in 1..(Min(Len(s), Len(t)) + 1) :
        /\ \A j \in 1..(i - 1) : s[j] = t[j]
        /\ \/ i > Len(s) /\ i <= Len(t)
           \/ i <= Len(s) /\ i <= Len(t) /\ Ord(s[i]) < Ord(t[i])

\* str.strip(): leading and trailing blanks removed.
Strip(s) ==
    LET solid == {i \in 1..Len(s) : s[i] # " "}
    IN  IF solid = {} THEN <<>>
        ELSE LET lo == CHOOSE i \in solid : \A j \in solid : i <= j
                 hi == CHOOSE i \in solid : \A j \in solid : j <= i
             IN  SubSeq(s, lo, hi)

\* str.lstrip('-'): every leading minus sign removed.
LStripMinus(s) ==
    LET solid == {i \in 1..Len(s) : s[i] # "-"}
    IN  IF solid = {} THEN <<>>
        ELSE SubSeq(s, CHOOSE i \in solid : \A j \in solid : i <= j, Len(s))

Contains(s, sub) ==
    \E i \in 0..(Len(s) - Len(sub)) : SubSeq(s, i + 1, i + Len(sub)) = sub

StartsWith(s, pre) ==
    Len(pre) <= Len(s) /\ SubSeq(s, 1, Len(pre)) = pre

\* The icontains, istartswith and iexact lookups.
IContains(s, sub) == Contains(Lower(s), Lower(sub))

IStartsWith(s, pre) == StartsWith(Lower(s), Lower(pre))

IExact(s, t) == Lower(s) = Lower(t)

\* str.split(sep): the pieces of s between the separators.
RECURSIVE Split(_, _)
Split(s, sep) ==
    LET at == {i \in 1..Len(s) : s[i] = sep}
    IN  IF at = {} THEN <<s>>
        ELSE LET k == CHOOSE i \in at : \A j \in at : i <= j
             IN  <<SubSeq(s, 1, k - 1)>> \o Split(SubSeq(s, k + 1, Len(s)), sep)

\* str.split(): the maximal runs of non-blank characters.
Words(s) ==
    {SubSeq(s, i, j) : <<i, j>> \in
        {p \in (1..Len(s)) \X (1..Len(s)) :
            /\ p[1] <= p[2]
            /\ \A k \in p[1]..p[2] : s[k] # " "
            /\ (p[1] = 1 \/ s[p[1] - 1] = " ")
            /\ (p[2] = Len(s) \/ s[p[2] + 1] = " ")}}

IsDigit(c) == c \in {"0", "1", "2", "3", "4", "5", "6", "7", "8", "9"}

DigitVal(c) ==
    CASE c = "0" -> 0 [] c = "1" -> 1 [] c = "2" -> 2 [] c = "3" -> 3
      [] c = "4" -> 4 [] c = "5" -> 5 [] c = "6" -> 6 [] c = "7" -> 7
      [] c = "8" -> 8 [] OTHER -> 9

RECURSIVE DecVal(_)
DecVal(s) ==
    IF s = <<>> THEN 0
    ELSE 10 * DecVal(SubSeq(s, 1, Len(s) - 1)) + DigitVal(s[Len(s)])

\* decimal.Decimal(t) as forms.DecimalField.to_python calls it, followed by
\* the int() that the lookup on an integer column applies to the value.
\* A decimal number is an optional sign, digits with an optional fraction
\* (a digit before or after the point), and an optional exponent e or E
\* with an optional sign and digits; underscores are left out of account.
\* NaN and Infinity parse and are refused for not being finite, so that
\* they end as every other text does.  int() truncates toward zero.  A
\* value above the largest number of the model is taken for that number;
\* every year and identifier of a store is below it.
Decimal(t) ==
    LET huge == 2147483647
        u == SelectSeq(t, LAMBDA c : c # "_")
        signed(d) == d # <<>> /\ d[1] \in {"-", "+"}
        body == IF signed(u) THEN Tail(u) ELSE u
        es == {i \in 1..Len(body) : body[i] \in {"e", "E"}}
        k == IF es = {} THEN Len(body) + 1
             ELSE CHOOSE i \in es : \A j \in es : i <= j
        mant == SubSeq(body, 1, k - 1)
        expo == SubSeq(body, k + 1, Len(body))
        edig == IF signed(expo) THEN Tail(expo) ELSE expo
        dots == {i \in 1..Len(mant) : mant[i] = "."}
        dot == IF dots = {} THEN Len(mant) + 1
               ELSE CHOOSE i \in dots : \A j \in dots : i <= j
        ip == SubSeq(mant, 1, dot - 1)
        fp == SubSeq(mant, dot + 1, Len(mant))
        digits(d) == \A i \in 1..Len(d) : IsDigit(d[i])
        wellformed ==
            /\ digits(ip) /\ digits(fp) /\ Len(ip) + Len(fp) >= 1
            /\ es # {} => edig # <<>> /\ digits(edig)
        e == (IF signed(expo) /\ expo[1] = "-" THEN 0 - DecVal(edig)
              ELSE DecVal(edig)) - Len(fp)
        c == DecVal(ip \o fp)
        mag == IF c = 0 THEN 0
               ELSE IF e >= 0
               THEN IF e > 9 \/ c > huge \div (10 ^ e) THEN huge
                    ELSE c * (10 ^ e)
               ELSE IF e < -9 THEN 0 ELSE c \div (10 ^ (0 - e))
    IN  IF ~wellformed THEN [kind |-> "invalid", val |-> 0]
        ELSE [kind |-> "num",
              val |-> IF signed(u) /\ u[1] = "-" THEN 0 - mag ELSE mag]

\* NumberClean with the empty string taken for a malformed number.
NumberClean_EmptyInvalid(s) == Decimal(Strip(s))

\* forms.DecimalField.clean of a NumberFilter: nothing for the empty string,
\* else the number the value is read as (blanks around it allowed), or
\* invalid for a value that is no number.
NumberClean(s) ==
    IF s = <<>> THEN [kind |-> "none", val |-> 0] ELSE Decimal(Strip(s))

(***************************************************************************)
(* Requests and responses.                                                 *)
(***************************************************************************)
BookFields == {"title", "publication_year", "author"}

\* A request body: the supplied fields K of a Book.
Body(K, t, y, a) ==
    [k \in K |-> CASE k = "title" -> t
                   [] k = "publication_year" -> y
                   [] OTHER -> a]

NoBody == [k \in {} |-> 0]

\* Query parameters: each supplied key with the list of its values.
NoParams == [k \in {} |-> <<>>]

NoRequest ==
    [op |-> "none", auth |-> FALSE, pk |-> 0, data |-> NoBody, params |-> NoParams]

NoResponse ==
    [status |-> 0, results |-> <<>>, related |-> <<>>, errors |-> {},
     id |-> 0, ordering |-> <<>>, total_books |-> 0, publication_years |-> <<>>,
     data |-> NoBody, count |-> 0, metadata |-> NoBody]

Resp(status) == [NoResponse EXCEPT !.status = status]

\* QueryDict.get(key): the last value given for the key.
Get(params, k) == params[k][Len(params[k])]

Has(params, k) == k \in DOMAIN params

(***************************************************************************)
(* urls.py: the keyword arguments each route captures from its path.       *)
(***************************************************************************)
RouteKwargs(route) ==
    CASE route = "book-detail" -> {"pk"}
      [] route = "author-detail" -> {"pk"}
      [] OTHER -> {}

\* GenericAPIView.get_object for a view with lookup_field = 'pk': the view
\* asserts that its route captured pk (a failed assertion is a 500), then
\* looks the Book up (404 when there is none).
GetObjectStatus(route, pk) ==
    IF "pk" \notin RouteKwargs(route) THEN 500
    ELSE IF pk \notin DOMAIN books THEN 404
    ELSE 200

\* IsAuthenticated replaced by AllowAny.
IsAuthenticated_AllowAny(req) == TRUE

\* permission_classes = [permissions.IsAuthenticated]
IsAuthenticated(req) == req.auth

\* The statuses of a request refused for want of authentication.
Refusals == {401, 403}

(***************************************************************************)
(* serializers.py: BookSerializer.                                         *)
(***************************************************************************)
\* validate_publication_year: the year must not exceed the current year.
YearRejected(value, current_year) == value > current_year

\* The value a field is saved with: the title is trimmed.
Cleaned(data, f) == IF f = "title" THEN Strip(data[f]) ELSE data[f]

\* Field-level validation: the fields in error.
FieldErrors(data, partial) ==
    {f \in BookFields :
        IF f \notin DOMAIN data THEN ~partial
        ELSE CASE f = "title" -> Strip(data[f]) = <<>>
               [] f = "publication_year" -> YearRejected(data[f], now)
               [] OTHER -> data[f] \notin DOMAIN authors}

\* The attributes the Book would have: supplied fields over the instance's.
Merged(data, instance) ==
    [f \in BookFields |->
        IF f \in DOMAIN data THEN Cleaned(data, f) ELSE instance[f]]

\* PairTaken with unique_together dropped from Book.Meta.
PairTaken_NoConstraint(attrs, exclude) == FALSE

\* Meta.unique_together = ['title', 'author'], enforced by the serializer's
\* UniqueTogetherValidator: another Book holds the same pair.
PairTaken(attrs, exclude) ==
    \E i \in DOMAIN books \ exclude :
        books[i].title = attrs.title /\ books[i].author = attrs.author

\* serializer.is_valid(): field errors, else the unique-together check.
\* A create (exclude = {}) must supply every field; instance is then unused.
SerializerErrors(data, partial, instance, exclude) ==
    LET fe == FieldErrors(data, partial)
    IN  IF fe # {} THEN fe
        ELSE IF PairTaken(Merged(data, instance), exclude)
             THEN {"non_field_errors"}
             ELSE {}

BlankBook == [title |-> <<>>, publication_year |-> 0, author |-> 0]

(***************************************************************************)
(* Inputs.                                                                 *)
(***************************************************************************)
AuthorNames == [a \in {1, 2} |-> IF a = 1 THEN <<"E", "r">> ELSE <<"r", "a">>]

TitleInputs == {<<"a">>, <<" ", "a">>, <<"A">>, <<" ">>}

YearInputs == {ClassicYear - 1, StartYear, StartYear + 1}

AuthorInputs == {1, 2, 3}

CreateKeys == {BookFields} \cup {BookFields \ {f} : f \in BookFields}

CreateBodies ==
    {Body(K, t, y, a) :
        K \in CreateKeys, t \in TitleInputs, y \in YearInputs, a \in AuthorInputs}

UpdateBodies ==
    {Body(K, t, y, a) :
        K \in {BookFields, {"title"}, {"publication_year"}},
        t \in {<<"a">>, <<"A">>}, y \in {StartYear, StartYear + 2}, a \in {1}}

PkInputs == 1..(MaxBooks + 1)

(***************************************************************************)
(* The handlers of the mutating endpoints.                                 *)
(***************************************************************************)
\* The store with the Book of a create request inserted.
Inserted(data) ==
    [i \in DOMAIN books \cup {nextId} |->
        IF i = nextId THEN Merged(data, BlankBook) ELSE books[i]]

\* perform_create run without waiting for the verdict of is_valid.
perform_create_Unvalidated(data, errs) == Inserted(data)

\* serializer.is_valid(raise_exception=True), then perform_create: the
\* record is written when validation found no error, and not otherwise.
perform_create(data, errs) == IF errs # {} THEN books ELSE Inserted(data)

\* POST /books/create/  BookCreateView.create
CreateBook ==
    /\ pc = "idle"
    /\ nextId <= MaxBooks
    /\ \E auth \in BOOLEAN, data \in CreateBodies :
        LET req == [op |-> "create", auth |-> auth, pk |-> 0,
                    data |-> data, params |-> NoParams]
            errs == SerializerErrors(data, FALSE, BlankBook, {})
        IN  /\ request' = req
            /\ IF ~IsAuthenticated(req)
               THEN /\ \E s \in Refusals : response' = Resp(s)
                    /\ UNCHANGED <<books, nextId>>
               ELSE /\ books' = perform_create(data, errs)
                    /\ IF errs # {}
                       THEN /\ response' = [Resp(400) EXCEPT !.errors = errs]
                            /\ UNCHANGED nextId
                       ELSE /\ nextId' = nextId + 1
                            /\ response' = [Resp(201) EXCEPT
                                               !.id = nextId,
                                               !.data = Merged(data, BlankBook)]
    /\ pc' = "responded"
    /\ UNCHANGED <<authors, nextAuthorId, now>>
    /\ UNCHANGED others

\* BookUpdateView.update, reached by PUT (partial = FALSE) and by PATCH
\* (partial = TRUE) on /books/update/.
UpdateWith(op, partial) ==
    /\ pc = "idle"
    /\ \E auth \in BOOLEAN, pk \in PkInputs, data \in UpdateBodies :
        LET req == [op |-> op, auth |-> auth, pk |-> pk,
                    data |-> data, params |-> NoParams]
            found == GetObjectStatus("book-update", pk)
            errs == SerializerErrors(data, partial, books[pk], {pk})
        IN  /\ request' = req
            /\ IF ~IsAuthenticated(req)
               THEN /\ \E s \in Refusals : response' = Resp(s)
                    /\ UNCHANGED books
               ELSE IF found # 200
               THEN /\ response' = Resp(found)
                    /\ UNCHANGED books
               ELSE IF errs # {}
               THEN /\ response' = [Resp(400) EXCEPT !.errors = errs]
                    /\ UNCHANGED books
               ELSE /\ books' = [books EXCEPT ![pk] = Merged(data, books[pk])]
                    /\ response' = [Resp(200) EXCEPT
                                       !.id = pk,
                                       !.data = Merged(data, books[pk])]
    /\ pc' = "responded"
    /\ UNCHANGED <<authors, nextAuthorId, nextId, now>>
    /\ UNCHANGED others

UpdateBook == UpdateWith("update", FALSE)

PartialUpdateBook == UpdateWith("partial_update", TRUE)

\* DELETE /books/delete/  BookDeleteView.destroy
DestroyBook ==
    /\ pc = "idle"
    /\ \E auth \in BOOLEAN, pk \in PkInputs :
        LET req == [op |-> "destroy", auth |-> auth, pk |-> pk,
                    data |-> NoBody, params |-> NoParams]
            found == GetObjectStatus("book-delete", pk)
        IN  /\ request' = req
            /\ IF ~IsAuthenticated(req)
               THEN /\ \E s \in Refusals : response' = Resp(s)
                    /\ UNCHANGED books
               ELSE IF found # 200
               THEN /\ response' = Resp(found)
                    /\ UNCHANGED books
               ELSE /\ books' = [i \in DOMAIN books \ {pk} |-> books[i]]
                    /\ response' = [Resp(200) EXCEPT !.id = pk, !.data = books[pk]]
    /\ pc' = "responded"
    /\ UNCHANGED <<authors, nextAuthorId, nextId, now>>
    /\ UNCHANGED others

\* datetime.now().year moves on.
NewYear ==
    /\ pc = "idle"
    /\ now < LastYear
    /\ now' = now + 1
    /\ UNCHANGED <<authors, nextAuthorId, books, nextId, request, response, pc>>
    /\ UNCHANGED others

\* The client takes the response; the next request can be made.
Deliver ==
    /\ pc = "responded"
    /\ pc' = "idle"
    /\ request' = NoRequest
    /\ response' = NoResponse
    /\ UNCHANGED <<authors, nextAuthorId, books, nextId, now>>
    /\ UNCHANGED others

(***************************************************************************)
(* views.py: BookListView.  The list pipeline is get_queryset, then the    *)
(* filter backends in order: DjangoFilterBackend with BookFilter, then     *)
(* SearchFilter, then OrderingFilter.                                      *)
(***************************************************************************)
TrueWord == <<"t", "r", "u", "e">>

\* FlagSet comparing the value itself with 'true'.
FlagSet_CaseSensitive(params, k) ==
    /\ Has(params, k)
    /\ Get(params, k) = TrueWord

\* if flag and flag.lower() == 'true'
FlagSet(params, k) ==
    /\ Has(params, k)
    /\ Get(params, k) # <<>>
    /\ Lower(Get(params, k)) = TrueWord

\* BookListView.get_queryset: the recent_only and classic_books flags.
get_queryset(params) ==
    {i \in DOMAIN books :
        /\ FlagSet(params, "recent_only")
              => books[i].publication_year >= now - RecentSpan
        /\ FlagSet(params, "classic_books")
              => books[i].publication_year < ClassicYear}

AuthorName(i) == authors[books[i].author]

\* The filters of BookFilter that take text and those that take a number.
\* title__icontains, title__istartswith, author__name and
\* author__name__icontains are generated from Meta.fields; the generated
\* exact filter named title is replaced by the declared one.
CharKeys ==
    {"title", "author_name", "search", "title__icontains",
     "title__istartswith", "author__name", "author__name__icontains"}

NumberKeys ==
    {"author_id", "publication_year", "publication_year__gt",
     "publication_year__lt", "publication_year__gte", "publication_year__lte"}

\* The RangeFilter publication_year_range reads its two bounds from the
\* keys with the suffixes of its widget.
RangeMinKey == "publication_year_range_min"

RangeMaxKey == "publication_year_range_max"

\* forms.CharField.clean of a CharFilter: the value trimmed.
CharClean(params, k) == IF Has(params, k) THEN Strip(Get(params, k)) ELSE <<>>

NumberOf(params, k) ==
    IF Has(params, k) THEN NumberClean(Get(params, k))
    ELSE [kind |-> "none", val |-> 0]

\* FilterSet.is_valid(): the filters whose value does not clean.
BookFilterErrors(params) ==
    {k \in NumberKeys : NumberOf(params, k).kind = "invalid"}
    \cup (IF \/ NumberOf(params, RangeMinKey).kind = "invalid"
             \/ NumberOf(params, RangeMaxKey).kind = "invalid"
          THEN {"publication_year_range"} ELSE {})

\* custom_search returning the queryset as it came.
custom_search_Unfiltered(i, value) == TRUE

\* BookFilter.custom_search
custom_search(i, value) ==
    IF value # <<>>
    THEN IContains(books[i].title, value) \/ IContains(AuthorName(i), value)
    ELSE TRUE

\* One text filter applied to Book i; an empty value skips the filter.
CharFilterPass(i, k, value) ==
    \/ value = <<>>
    \/ CASE k = "title" -> IContains(books[i].title, value)
         [] k = "title__icontains" -> IContains(books[i].title, value)
         [] k = "title__istartswith" -> IStartsWith(books[i].title, value)
         [] k = "author_name" -> IContains(AuthorName(i), value)
         [] k = "author__name__icontains" -> IContains(AuthorName(i), value)
         [] k = "author__name" -> AuthorName(i) = value
         [] OTHER -> custom_search(i, value)

\* One NumberFilter applied to Book i; no value skips the filter.
NumberFilterPass(i, k, n) ==
    \/ n.kind # "num"
    \/ CASE k = "author_id" -> books[i].author = n.val
         [] k = "publication_year" -> books[i].publication_year = n.val
         [] k = "publication_year__gt" -> books[i].publication_year > n.val
         [] k = "publication_year__lt" -> books[i].publication_year < n.val
         [] k = "publication_year__gte" -> books[i].publication_year >= n.val
         [] OTHER -> books[i].publication_year <= n.val

\* RangeFilter.filter: both bounds give the range lookup (inclusive), one
\* bound alone gives gte or lte.
RangeFilterPass(i, lo, hi) ==
    /\ lo.kind = "num" => books[i].publication_year >= lo.val
    /\ hi.kind = "num" => books[i].publication_year <= hi.val

\* BookFilter.qs: every filter applied in turn.
BookFilterPass(i, params) ==
    /\ \A k \in CharKeys : CharFilterPass(i, k, CharClean(params, k))
    /\ \A k \in NumberKeys : NumberFilterPass(i, k, NumberOf(params, k))
    /\ RangeFilterPass(i, NumberOf(params, RangeMinKey), NumberOf(params, RangeMaxKey))

\* SearchFilter.get_search_terms: the search value split at its commas and
\* blanks.  search_fields = ['title', 'author__name', '=title', '^title']:
\* SearchFilter keeps a Book when every term matches some field.
SearchTerms(params) ==
    IF ~Has(params, "search") THEN {}
    ELSE LET v == Get(params, "search")
         IN  Words([n \in 1..Len(v) |-> IF v[n] = "," THEN " " ELSE v[n]])

SearchFilterPass(i, params) ==
    \A term \in SearchTerms(params) :
        \/ IContains(books[i].title, term)
        \/ IContains(AuthorName(i), term)
        \/ IExact(books[i].title, term)
        \/ IStartsWith(books[i].title, term)

\* The Books that pass get_queryset and the two filtering backends.
Filtered(params) ==
    {i \in get_queryset(params) :
        BookFilterPass(i, params) /\ SearchFilterPass(i, params)}

ordering_fields == {"title", "publication_year", "author__name", "id"}

\* ordering = ['title']
DefaultOrdering == << <<"title">> >>

\* Author: ordering_fields = ['name', 'id'], ordering = ['name']
AuthorOrderingFields == {"name", "id"}

AuthorDefaultOrdering == << <<"name">> >>

\* The terms of a comma-separated expression, each trimmed.
Terms(expr) ==
    LET pieces == Split(expr, ",")
    IN  [n \in 1..Len(pieces) |-> Strip(pieces[n])]

\* OrderingFilter.get_ordering, the method the list endpoints order with:
\* a term is kept when it is an allowed field, with at most one minus sign
\* before it; the view's ordering attribute is the default.
FilterOrdering(params, valid, default) ==
    LET expr == IF Has(params, "ordering") THEN Get(params, "ordering") ELSE <<>>
        ok(term) ==
            LET name == IF term # <<>> /\ term[1] = "-" THEN Tail(term) ELSE term
            IN  Len(name) = 1 /\ name[1] \in valid
        kept == SelectSeq(Terms(expr), ok)
    IN  IF expr # <<>> /\ kept # <<>> THEN kept ELSE default

\* get_ordering appending every term, allow-listed or not.
get_ordering_Unvalidated(params) ==
    LET ordering == Strip(IF Has(params, "ordering")
                          THEN Get(params, "ordering") ELSE <<>>)
    IN  IF ordering = <<>> THEN << <<"title">> >> ELSE Terms(ordering)

\* BookListView.get_ordering.  No backend calls this method of the view.
get_ordering(params) ==
    LET ordering == Strip(IF Has(params, "ordering")
                          THEN Get(params, "ordering") ELSE <<>>)
        ok(field) ==
            LET clean_field == LStripMinus(field)
            IN  Len(clean_field) = 1 /\ clean_field[1] \in ordering_fields
        validated_ordering == SelectSeq(Terms(ordering), ok)
    IN  IF ordering = <<>> THEN DefaultOrdering
        ELSE IF validated_ordering # <<>> THEN validated_ordering
        ELSE DefaultOrdering

\* Book i sorts strictly before Book j on one field.
FieldLess(i, j, field) ==
    CASE field = "title" -> StrLess(books[i].title, books[j].title)
      [] field = "publication_year" ->
            books[i].publication_year < books[j].publication_year
      [] field = "author__name" -> StrLess(AuthorName(i), AuthorName(j))
      [] OTHER -> i < j

TermLess(i, j, term) ==
    IF term[1] = "-" THEN FieldLess(j, i, term[2]) ELSE FieldLess(i, j, term[1])

\* queryset.order_by(*terms): i must come before j.
Before(i, j, terms) ==
    \E k \in 1..Len(terms) :
        /\ TermLess(i, j, terms[k])
        /\ \A m \in 1..(k - 1) :
              ~TermLess(i, j, terms[m]) /\ ~TermLess(j, i, terms[m])

\* The sequences the store may return for ORDER BY terms: rows equal on
\* every term come in an order the store does not define.
RECURSIVE OrderedBy(_, _)
OrderedBy(S, terms) ==
    IF S = {} THEN {<<>>}
    ELSE UNION {{<<m>> \o rest : rest \in OrderedBy(S \ {m}, terms)} :
                   m \in {x \in S : \A y \in S : ~Before(y, x, terms)}}

\* total_count taking the length of the page.
total_count_PageLength(data) == Len(data.results)

\* response.data.get('count', len(response.data.get('results', [])))
total_count(data) ==
    IF "count" \in DOMAIN data THEN data.count ELSE Len(data.results)

\* response.data['metadata'] of BookListView.list.
BookMetadata(data) ==
    [total_count |-> total_count(data),
     filtering_options |->
        {"title", "author_name", "author_id", "publication_year",
         "publication_year__gt", "publication_year__lt", "publication_year__gte",
         "publication_year__lte", "publication_year_range", "search",
         "recent_only", "classic_books"},
     searching_fields |-> {"title", "author__name"},
     search_types |-> {"contains", "exact", "starts_with"},
     ordering_fields |-> {"title", "publication_year", "author__name", "id"},
     default_ordering |-> "title",
     page_size |-> 20,
     page_query_param |-> "page",
     max_page_size |-> 100]

\* response.data['metadata'] of AuthorListView.list.
AuthorMetadata ==
    [filtering_options |-> {"name", "has_books"},
     searching_fields |-> {"name"},
     ordering_fields |-> {"name", "id"},
     default_ordering |-> "name"]

\* The responses BookListView.list can give to a request: 400 naming the
\* filters in error, or 200 with the ordered result.  results holds the
\* whole ordered result, all pages together.
ListResponses(params) ==
    LET errs == BookFilterErrors(params)
        terms == FilterOrdering(params, ordering_fields, DefaultOrdering)
    IN  IF errs # {}
        THEN {[Resp(400) EXCEPT !.errors = errs]}
        ELSE {[Resp(200) EXCEPT
                  !.results = seq,
                  !.ordering = terms,
                  !.count = Len(seq),
                  !.metadata = BookMetadata([count |-> Len(seq), results |-> seq])] :
                 seq \in OrderedBy(Filtered(params), terms)}

\* The page query parameter: a numeral, 1 when absent.
PageNumber(params) == IF Has(params, "page") THEN DecVal(Get(params, "page")) ELSE 1

\* A page that holds one record more than the page size.
Paginate_OneMore(seq, p) ==
    SubSeq(seq, PageSize * (p - 1) + 1, Min(PageSize * p + 1, Len(seq)))

\* The pagination stage: page p holds the records at the positions
\* PageSize * (p - 1) + 1 to PageSize * p.
Paginate(seq, p) ==
    SubSeq(seq, PageSize * (p - 1) + 1, Min(PageSize * p, Len(seq)))

\* The page of the ordered result seq that a request asks for: the response
\* r of the list with the page under results, or 404 without results and
\* without metadata when the result has no page of that number, since
\* super().list raises NotFound before list adds the metadata.  An empty
\* result has one page, which is empty.
PageOf(r, seq, p) ==
    LET pages == IF seq = <<>> THEN 1
                 ELSE (Len(seq) + PageSize - 1) \div PageSize
        page == Paginate(seq, p)
    IN  IF p \notin 1..pages THEN Resp(404)
        ELSE [r EXCEPT
                 !.results = page,
                 !.metadata = BookMetadata([count |-> r.count, results |-> page])]

\* The responses of the list endpoint with its result cut into pages: count
\* is the size of the whole result, results the page asked for.
PageResponses(params) ==
    {IF r.status # 200 THEN r ELSE PageOf(r, r.results, PageNumber(params)) :
        r \in ListResponses(params)}

\* GET /books/?page=p  BookListView.list, one page of the result.
ListPage(requests) ==
    /\ pc = "idle"
    /\ \E params \in requests :
        /\ request' = [op |-> "list", auth |-> FALSE, pk |-> 0,
                       data |-> NoBody, params |-> params]
        /\ response' \in PageResponses(params)
    /\ pc' = "responded"
    /\ UNCHANGED <<authors, nextAuthorId, books, nextId, now>>
    /\ UNCHANGED others

\* GET /books/  BookListView.list
ListWith(requests) ==
    /\ pc = "idle"
    /\ \E params \in requests :
        /\ request' = [op |-> "list", auth |-> FALSE, pk |-> 0,
                       data |-> NoBody, params |-> params]
        /\ response' \in ListResponses(params)
    /\ pc' = "responded"
    /\ UNCHANGED <<authors, nextAuthorId, books, nextId, now>>
    /\ UNCHANGED others

\* Book.Meta.ordering = ['title']
MetaOrdering == << <<"title">> >>

\* queryset[:n]
Take(seq, n) == SubSeq(seq, 1, Min(n, Len(seq)))

\* RelatedTo without the exclude(id=instance.id).
RelatedTo_WithSelf(pk) ==
    {i \in DOMAIN books : books[i].author = books[pk].author}

\* Book.objects.filter(author=instance.author).exclude(id=instance.id)
RelatedTo(pk) ==
    {i \in DOMAIN books : books[i].author = books[pk].author /\ i # pk}

\* GET /books/<pk>/  BookDetailView.retrieve; related is empty when the
\* response carries no related_books key.
RetrieveBook ==
    /\ pc = "idle"
    /\ \E pk \in PkInputs \cup DOMAIN books \cup {nextId} :
        LET found == GetObjectStatus("book-detail", pk)
        IN  /\ request' = [op |-> "retrieve", auth |-> FALSE, pk |-> pk,
                           data |-> NoBody, params |-> NoParams]
            /\ IF found # 200
               THEN response' = Resp(found)
               ELSE \E seq \in OrderedBy(RelatedTo(pk), MetaOrdering) :
                       response' = [Resp(200) EXCEPT
                                       !.id = pk,
                                       !.related = Take(seq, RelatedLimit)]
    /\ pc' = "responded"
    /\ UNCHANGED <<authors, nextAuthorId, books, nextId, now>>
    /\ UNCHANGED others

(***************************************************************************)
(* Inputs of the read endpoints.                                           *)
(***************************************************************************)
DigitChar(d) ==
    CASE d = 0 -> "0" [] d = 1 -> "1" [] d = 2 -> "2" [] d = 3 -> "3"
      [] d = 4 -> "4" [] d = 5 -> "5" [] d = 6 -> "6" [] d = 7 -> "7"
      [] d = 8 -> "8" [] OTHER -> "9"

\* The decimal numeral of a number, as a client writes it in a query string.
RECURSIVE Numeral(_)
Numeral(n) ==
    IF n < 10 THEN <<DigitChar(n)>>
    ELSE Numeral(n \div 10) \o <<DigitChar(n % 10)>>

NotANumber == <<"1", "9", "x">>

\* The values a list request may give to each key.
ParamValues(k) ==
    CASE k \in {"title", "title__icontains", "title__istartswith"} ->
            {<< <<"a">> >>, << <<"B", " ">> >>}
      [] k \in {"author_name", "author__name", "author__name__icontains"} ->
            {<< <<"r">> >>, << <<"E", "r">> >>}
      [] k = "search" ->
            {<< <<"a">> >>, << <<" ">> >>, << <<"B", " ">> >>,
             << <<"a", ",", " ", "b">> >>}
      [] k \in {"publication_year", "publication_year__gt", "publication_year__gte"} ->
            {<<Numeral(ClassicYear)>>, << <<>> >>, <<NotANumber>>}
      [] k \in {"publication_year__lt", "publication_year__lte"} ->
            {<<Numeral(StartYear - RecentSpan)>>, << <<>> >>, <<NotANumber>>}
      [] k = "author_id" ->
            {<< <<"1">> >>, << <<"x">> >>, << <<"-", "1">> >>,
             << <<"1", "e", "0">> >>}
      [] k = "publication_year_range_min" ->
            {<<Numeral(ClassicYear)>>, <<Numeral(StartYear)>>}
      [] k = "publication_year_range_max" ->
            {<<Numeral(StartYear - RecentSpan)>>, <<NotANumber>>}
      [] k = "publication_year_range" ->
            {<<Numeral(ClassicYear), Numeral(StartYear - RecentSpan)>>}
      [] k = "recent_only" ->
            {<<TrueWord>>, << <<"T", "R", "U", "E">> >>, << <<"1">> >>}
      [] k = "classic_books" ->
            {<< <<"T", "r", "u", "e">> >>, << <<"f", "a", "l", "s", "e">> >>}
      [] k = "ordering" ->
            {<< <<"title">> >>, << <<"-", "publication_year">> >>,
             << <<"publication_year", ",", " ", "-", "id">> >>,
             << <<"author__name">> >>, << <<"bogus">> >>,
             << <<"-", "-", "title">> >>}
      [] OTHER -> {<< <<"1">> >>, << <<"2">> >>}

\* The keys a list request may carry; no filter is named author or colour,
\* nor publication_year_range without a suffix.
ListKeys ==
    CharKeys \cup NumberKeys
    \cup {RangeMinKey, RangeMaxKey, "publication_year_range", "recent_only",
          "classic_books", "ordering", "author", "colour"}

RECURSIVE KeySets(_, _)
KeySets(keys, n) ==
    IF n = 0 THEN {{}}
    ELSE KeySets(keys, n - 1)
         \cup {K \cup {k} : K \in KeySets(keys, n - 1), k \in keys}

ParamsOver(K) ==
    {f \in [K -> UNION {ParamValues(k) : k \in K}] :
        \A k \in K : f[k] \in ParamValues(k)}

ListRequests == UNION {ParamsOver(K) : K \in KeySets(ListKeys, MaxParams)}

BrowseRequests == UNION {ParamsOver(K) : K \in KeySets({"title", "author"}, 1)}

\* The symbols of the ordering expressions given to get_ordering.
OrderingSymbols == {",", "-", " ", "title", "id", "name", "bogus"}

OrderingRequests ==
    {NoParams}
    \cup {[k \in {"ordering"} |-> <<expr>>] :
            expr \in UNION {[1..n -> OrderingSymbols] : n \in 0..MaxOrderingLen}}

Book(t, y, a) == [title |-> t, publication_year |-> y, author |-> a]

\* The Books the stores of the list checks are drawn from.  Books 1 and 2
\* share a title, Books 2 and 3 an author, and the years lie on both sides
\* of the classic and of the recent threshold.
ListCatalogue ==
    <<Book(<<"A", "b">>, ClassicYear - 1, 2),
      Book(<<"A", "b">>, StartYear - RecentSpan, 1),
      Book(<<"b", " ", "a">>, ClassicYear, 1),
      Book(<<"a">>, StartYear - RecentSpan - 1, 2)>>

\* The Books the stores of the detail checks are drawn from: seven of
\* author 1, one of author 2.
DetailCatalogue ==
    <<Book(<<"b">>, StartYear, 1),
      Book(<<"a">>, StartYear, 1),
      Book(<<"B">>, StartYear, 1),
      Book(<<"a", "b">>, StartYear, 1),
      Book(<<"A">>, StartYear, 1),
      Book(<<"a">>, StartYear, 2),
      Book(<<"b", "a">>, StartYear, 1),
      Book(<<"A", "b">>, StartYear, 1)>>

\* The stores that hold some of the Books of a catalogue, each under its
\* position as identifier.
Stores(catalogue) ==
    {[i \in K |-> catalogue[i]] : K \in SUBSET DOMAIN catalogue}

(***************************************************************************)
(* views.py: AuthorDetailView and AuthorListView, filters.py: AuthorFilter. *)
(***************************************************************************)
\* GenericAPIView.get_object of an author route: as for Books.
GetAuthorStatus(route, pk) ==
    IF "pk" \notin RouteKwargs(route) THEN 500
    ELSE IF pk \notin DOMAIN authors THEN 404
    ELSE 200

\* instance.books: the reverse of Book.author (related_name='books').
BooksOf(a) == {i \in DOMAIN books : books[i].author = a}

\* order_by('publication_year').values_list('publication_year', flat=True):
\* one year per Book, ascending.
RECURSIVE values_list(_)
values_list(S) ==
    IF S = {} THEN <<>>
    ELSE LET m == CHOOSE x \in S :
                     \A y \in S : books[x].publication_year <= books[y].publication_year
         IN  <<books[m].publication_year>> \o values_list(S \ {m})

\* distinct returning every row.
distinct_Kept(rows) == rows

\* .distinct() on a list of values: each value once, at its first place.
RECURSIVE distinct(_)
distinct(rows) ==
    IF rows = <<>> THEN <<>>
    ELSE LET n == Len(rows)
             front == distinct(SubSeq(rows, 1, n - 1))
         IN  IF \E k \in 1..Len(front) : front[k] = rows[n]
             THEN front ELSE Append(front, rows[n])

\* GET /authors/<pk>/  AuthorDetailView.retrieve
RetrieveAuthor ==
    /\ pc = "idle"
    /\ \E pk \in AuthorInputs :
        LET found == GetAuthorStatus("author-detail", pk)
            books_count == Cardinality(BooksOf(pk))
        IN  /\ request' = [op |-> "retrieve_author", auth |-> FALSE, pk |-> pk,
                           data |-> NoBody, params |-> NoParams]
            /\ response' =
                  IF found # 200 THEN Resp(found)
                  ELSE [Resp(200) EXCEPT
                           !.id = pk,
                           !.total_books = books_count,
                           !.publication_years =
                               IF books_count > 0
                               THEN distinct(values_list(BooksOf(pk)))
                               ELSE <<>>]
    /\ pc' = "responded"
    /\ UNCHANGED <<authors, nextAuthorId, books, nextId, now>>
    /\ UNCHANGED others

\* forms.NullBooleanField with its NullBooleanSelect widget, the field of a
\* BooleanFilter: the words the widget knows give a truth value, any other
\* value gives none and the filter is skipped.
BooleanClean(params, k) ==
    LET v == IF Has(params, k) THEN Get(params, k) ELSE <<>>
    IN  IF v \in {TrueWord, <<"T", "r", "u", "e">>, <<"2">>} THEN "yes"
        ELSE IF v \in {<<"f", "a", "l", "s", "e">>, <<"F", "a", "l", "s", "e">>, <<"3">>}
             THEN "no"
        ELSE "none"

\* The members of a set of identifiers, ascending.
RECURSIVE IdSeq(_)
IdSeq(S) ==
    IF S = {} THEN <<>>
    ELSE LET m == CHOOSE x \in S : \A y \in S : x <= y
         IN  <<m>> \o IdSeq(S \ {m})

InSeq(seq, x) == \E k \in 1..Len(seq) : seq[k] = x

\* queryset.filter(books__isnull=False): the join of the Authors of the
\* queryset with their Books, one row per Book.
JoinBooks(queryset) ==
    LET owned == IdSeq({i \in DOMAIN books : InSeq(queryset, books[i].author)})
    IN  [k \in 1..Len(owned) |-> books[owned[k]].author]

\* filter_has_books without the .distinct() of its first branch.
filter_has_books_NoDistinct(queryset, value) ==
    IF value
    THEN JoinBooks(queryset)
    ELSE SelectSeq(queryset, LAMBDA a : BooksOf(a) = {})

\* AuthorFilter.filter_has_books
filter_has_books(queryset, value) ==
    IF value
    THEN distinct(JoinBooks(queryset))
    ELSE SelectSeq(queryset, LAMBDA a : BooksOf(a) = {})

\* AuthorFilter.qs followed by SearchFilter (search_fields = ['name']): the
\* rows of the author list before they are ordered.
AuthorRows(params) ==
    LET all == IdSeq(DOMAIN authors)
        name == CharClean(params, "name")
        named == SelectSeq(all, LAMBDA a : name = <<>> \/ IContains(authors[a], name))
        flag == BooleanClean(params, "has_books")
        owned == IF flag = "none" THEN named
                 ELSE filter_has_books(named, flag = "yes")
    IN  SelectSeq(owned, LAMBDA a :
            \A term \in SearchTerms(params) : IContains(authors[a], term))

\* Author a sorts strictly before Author b on one term of the ordering.
AuthorTermLess(a, b, term) ==
    LET desc == term[1] = "-"
        field == IF desc THEN term[2] ELSE term[1]
        x == IF desc THEN b ELSE a
        y == IF desc THEN a ELSE b
    IN  IF field = "name" THEN StrLess(authors[x], authors[y]) ELSE x < y

AuthorBefore(a, b, terms) ==
    \E k \in 1..Len(terms) :
        /\ AuthorTermLess(a, b, terms[k])
        /\ \A m \in 1..(k - 1) :
              ~AuthorTermLess(a, b, terms[m]) /\ ~AuthorTermLess(b, a, terms[m])

\* queryset.order_by(*terms) on the rows at the positions I.
RECURSIVE RowsOrderedBy(_, _, _)
RowsOrderedBy(rows, I, terms) ==
    IF I = {} THEN {<<>>}
    ELSE UNION {{<<rows[m]>> \o rest : rest \in RowsOrderedBy(rows, I \ {m}, terms)} :
                   m \in {x \in I : \A y \in I : ~AuthorBefore(rows[y], rows[x], terms)}}

\* The keys and values of the requests to the author list.
AuthorListKeys == {"name", "has_books", "search", "ordering"}

AuthorParamValues(k) ==
    CASE k = "name" -> {<< <<"r">> >>, << <<"E", " ">> >>}
      [] k = "has_books" ->
            {<<TrueWord>>, << <<"f", "a", "l", "s", "e">> >>,
             << <<"T", "R", "U", "E">> >>, << <<>> >>}
      [] k = "search" -> {<< <<"a">> >>, << <<"r", ",", "a">> >>}
      [] OTHER -> {<< <<"-", "name">> >>, << <<"id">> >>}

AuthorListRequests ==
    UNION {{f \in [K -> UNION {AuthorParamValues(k) : k \in K}] :
               \A k \in K : f[k] \in AuthorParamValues(k)} :
           K \in KeySets(AuthorListKeys, MaxParams)}

\* GET /authors/  AuthorListView.list; results holds the identifiers of the
\* Authors listed.
ListAuthors ==
    /\ pc = "idle"
    /\ \E params \in AuthorListRequests :
        LET rows == AuthorRows(params)
            terms == FilterOrdering(params, AuthorOrderingFields,
                                    AuthorDefaultOrdering)
        IN  /\ request' = [op |-> "list_authors", auth |-> FALSE, pk |-> 0,
                           data |-> NoBody, params |-> params]
            /\ \E seq \in RowsOrderedBy(rows, 1..Len(rows), terms) :
                  response' = [Resp(200) EXCEPT
                                  !.results = seq,
                                  !.ordering = terms,
                                  !.count = Len(seq),
                                  !.metadata = AuthorMetadata]
    /\ pc' = "responded"
    /\ UNCHANGED <<authors, nextAuthorId, books, nextId, now>>
    /\ UNCHANGED others

\* Collector.collect with on_delete=models.CASCADE on Book.author keeping
\* the Books of the deleted Author.
Cascade_DoNothing(a) == books

\* Author.delete(): on_delete=models.CASCADE on Book.author deletes the
\* Books of the Author with it.  What is left of the Books.
Cascade(a) == [i \in DOMAIN books \ BooksOf(a) |-> books[i]]

\* An Author deleted through the admin site (admin.py registers Author).
DeleteAuthor ==
    /\ pc = "idle"
    /\ \E a \in DOMAIN authors :
        /\ authors' = [x \in DOMAIN authors \ {a} |-> authors[x]]
        /\ books' = Cascade(a)
    /\ UNCHANGED <<nextId, nextAuthorId, now, request, response, pc>>
    /\ UNCHANGED others

\* The names typed into the Author form of the admin site.
AdminNames == {<<"N", "e">>, <<" ">>}

\* AuthorAdmin: an Author added or changed through the admin site.  The
\* form strips the name and requires it; a new Author takes the next id.
AuthorAdmin ==
    /\ pc = "idle"
    /\ \E name \in AdminNames, a \in DOMAIN authors \cup {nextAuthorId} :
        /\ Strip(name) # <<>>
        /\ a = nextAuthorId => nextAuthorId <= MaxAuthors
        /\ authors' = [x \in DOMAIN authors \cup {a} |->
                          IF x = a THEN Strip(name) ELSE authors[x]]
        /\ nextAuthorId' = IF a = nextAuthorId THEN nextAuthorId + 1
                           ELSE nextAuthorId
    /\ UNCHANGED <<books, nextId, now, request, response, pc>>
    /\ UNCHANGED others

\* The titles and the years typed into the Book form of the admin site:
\* the current year and the one after it.
AdminTitles == {<<" ", "a">>, <<"A">>, <<" ">>}

AdminYears == {now, now + 1}

\* BookAdmin: a Book added, changed or deleted through the admin site.  The
\* form of the admin is built from the model: it strips the title and
\* requires it, takes any integer as publication_year (the check of
\* BookSerializer.validate_publication_year is the serializer's alone),
\* offers the Authors of the store, and refuses a (title, author) pair
\* that another Book holds (unique_together).
BookAdmin ==
    /\ pc = "idle"
    /\ \/ \E title \in AdminTitles, year \in AdminYears :
          \E a \in DOMAIN authors, i \in DOMAIN books \cup {nextId} :
             LET attrs == [title |-> Strip(title), publication_year |-> year,
                           author |-> a]
             IN  /\ Strip(title) # <<>>
                 /\ ~PairTaken(attrs, {i})
                 /\ i = nextId => nextId <= MaxBooks
                 /\ books' = [x \in DOMAIN books \cup {i} |->
                                 IF x = i THEN attrs ELSE books[x]]
                 /\ nextId' = IF i = nextId THEN nextId + 1 ELSE nextId
       \/ \E i \in DOMAIN books :
             /\ books' = [x \in DOMAIN books \ {i} |-> books[x]]
             /\ UNCHANGED nextId
    /\ UNCHANGED <<authors, nextAuthorId, now, request, response, pc>>
    /\ UNCHANGED others

(***************************************************************************)
(* The remaining actions and the specifications.                           *)
(***************************************************************************)
ListBooks == ListWith(ListRequests)

BrowseBooks == ListWith(BrowseRequests)

\* The values given to recent_only and classic_books.
FlagValues ==
    {<<TrueWord>>, << <<"T", "R", "U", "E">> >>, << <<"T", "r", "u", "e">> >>,
     << <<"f", "a", "l", "s", "e">> >>, << <<"1">> >>, << <<>> >>}

FlagRequests ==
    UNION {[K -> FlagValues] : K \in SUBSET {"recent_only", "classic_books"}}

ListFlagged == ListWith(FlagRequests)

\* The requests that read the list page by page.
PageRequests ==
    UNION {{f \in [K -> {<< <<"1">> >>, << <<"2">> >>, << <<"3">> >>,
                         << <<"id">> >>, << <<"a">> >>}] :
               /\ "page" \in K => f["page"][1] \in {<<"1">>, <<"2">>, <<"3">>}
               /\ "ordering" \in K => f["ordering"] = << <<"id">> >>
               /\ "title" \in K => f["title"] = << <<"a">> >>} :
           K \in SUBSET {"page", "ordering", "title"}}

ReadPage == ListPage(PageRequests)

\* The client follows the next link of a page: the same request for the
\* page after it.  The store is the one the page was read from and the
\* query is the same, and the page is cut from the ordered result that the
\* page before it was cut from.
FollowNext ==
    /\ pc = "responded"
    /\ request.op = "list"
    /\ response.status = 200
    /\ PageSize * PageNumber(request.params) < response.count
    /\ LET params == [k \in DOMAIN request.params \cup {"page"} |->
                         IF k = "page"
                         THEN <<Numeral(PageNumber(request.params) + 1)>>
                         ELSE request.params[k]]
       IN  /\ request' = [request EXCEPT !.params = params]
           /\ \E r \in ListResponses(params) :
                /\ r.status = 200
                /\ Paginate(r.results, PageNumber(request.params))
                      = response.results
                /\ response' = PageOf(r, r.results, PageNumber(params))
    /\ UNCHANGED <<authors, nextAuthorId, books, nextId, now, pc>>
    /\ UNCHANGED others

\* The letters of the titles of the paged stores, in collation order.
PageAlphabet == <<"A", "B", "E", "a", "b", "e", "r">>

PageTitle(n) ==
    <<PageAlphabet[(n \div Len(PageAlphabet)) + 1],
      PageAlphabet[(n % Len(PageAlphabet)) + 1]>>

\* Book i of the paged stores.  The titles ascend with the identifiers,
\* except that Books PageSize and PageSize + 1, of two Authors, share one.
PageBook(i) ==
    IF i <= PageSize THEN Book(PageTitle(i), StartYear, 1)
    ELSE Book(PageTitle(i - 1), StartYear, 2)

\* The paged stores: the Books 1 to n, for each n up to MaxPagedBooks.
PageStores == {[i \in 1..n |-> PageBook(i)] : n \in 0..MaxPagedBooks}

\* BookListView.get_ordering applied to the query parameters.
GetOrdering ==
    /\ pc = "idle"
    /\ \E params \in OrderingRequests :
        /\ request' = [op |-> "get_ordering", auth |-> FALSE, pk |-> 0,
                       data |-> NoBody, params |-> params]
        /\ response' = [NoResponse EXCEPT !.ordering = get_ordering(params)]
    /\ pc' = "responded"
    /\ UNCHANGED <<authors, nextAuthorId, books, nextId, now>>
    /\ UNCHANGED others

\* The ordering stage of GET /authors/ (AuthorListView).
OrderAuthors ==
    /\ pc = "idle"
    /\ \E params \in OrderingRequests :
        /\ request' = [op |-> "order_authors", auth |-> FALSE, pk |-> 0,
                       data |-> NoBody, params |-> params]
        /\ response' = [NoResponse EXCEPT !.ordering =
                           FilterOrdering(params, AuthorOrderingFields,
                                          AuthorDefaultOrdering)]
    /\ pc' = "responded"
    /\ UNCHANGED <<authors, nextAuthorId, books, nextId, now>>
    /\ UNCHANGED others

NoBooks == [i \in {} |-> BlankBook]

\* No other project holds a record and no request is in flight.
OthersIdle ==
    /\ flight = <<>>
    /\ following = {}
    /\ posts = <<>>
    /\ comments = <<>>
    /\ blogPosts = <<>>
    /\ emails = <<>>
    /\ shelves = <<>>

Init ==
    /\ authors = AuthorNames
    /\ nextAuthorId = Cardinality(DOMAIN AuthorNames) + 1
    /\ books = NoBooks
    /\ nextId = 1
    /\ now = StartYear
    /\ request = NoRequest
    /\ response = NoResponse
    /\ pc = "idle"
    /\ OthersIdle

Next ==
    \/ CreateBook
    \/ UpdateBook
    \/ PartialUpdateBook
    \/ DestroyBook
    \/ BrowseBooks
    \/ RetrieveBook
    \/ NewYear
    \/ Deliver

Spec == Init /\ [][Next]_vars

\* A store of the list catalogue, queried by list requests.
InitList ==
    /\ authors = AuthorNames
    /\ nextAuthorId = Cardinality(DOMAIN AuthorNames) + 1
    /\ books \in Stores(ListCatalogue)
    /\ nextId = Len(ListCatalogue) + 1
    /\ now = StartYear
    /\ request = NoRequest
    /\ response = NoResponse
    /\ pc = "idle"
    /\ OthersIdle

NextList == ListBooks \/ Deliver

SpecList == InitList /\ [][NextList]_vars

\* A store of the list catalogue, queried with the two flags of get_queryset.
NextFlags == ListFlagged \/ Deliver

SpecFlags == InitList /\ [][NextFlags]_vars

\* A store of up to MaxPagedBooks Books, read page by page.
InitPages ==
    /\ authors = AuthorNames
    /\ nextAuthorId = Cardinality(DOMAIN AuthorNames) + 1
    /\ books \in PageStores
    /\ nextId = MaxPagedBooks + 1
    /\ now = StartYear
    /\ request = NoRequest
    /\ response = NoResponse
    /\ pc = "idle"
    /\ OthersIdle

NextPages == ReadPage \/ FollowNext \/ ListAuthors \/ Deliver

SpecPages == InitPages /\ [][NextPages]_vars

\* A store of the detail catalogue, queried by detail requests.
InitDetail ==
    /\ authors = AuthorNames
    /\ nextAuthorId = Cardinality(DOMAIN AuthorNames) + 1
    /\ books \in Stores(DetailCatalogue)
    /\ nextId = Len(DetailCatalogue) + 1
    /\ now = StartYear
    /\ request = NoRequest
    /\ response = NoResponse
    /\ pc = "idle"
    /\ OthersIdle

NextDetail == RetrieveBook \/ Deliver

SpecDetail == InitDetail /\ [][NextDetail]_vars

\* The ordering expressions resolved by get_ordering and by the ordering
\* stage of the author list.
NextOrdering == GetOrdering \/ OrderAuthors \/ Deliver

SpecOrdering == Init /\ [][NextOrdering]_vars

\* The store with its Authors: Books are created, Authors deleted, and the
\* author endpoints read.
NextAuthors ==
    \/ CreateBook
    \/ DeleteAuthor
    \/ RetrieveAuthor
    \/ ListAuthors
    \/ Deliver

SpecAuthors == Init /\ [][NextAuthors]_vars

\* The admin site, in which Authors and Books are added, changed and
\* deleted, and the author detail endpoint reading what it wrote.
NextAdmin ==
    \/ AuthorAdmin
    \/ BookAdmin
    \/ DeleteAuthor
    \/ RetrieveAuthor
    \/ Deliver

SpecAdmin == Init /\ [][NextAdmin]_vars

(***************************************************************************)
(* social_media_api: posts/views.py and accounts/views.py.  The models and *)
(* serializers of the project are not part of the sources read here; the  *)
(* state holds what the views use of them: the author, the content and    *)
(* the creation time of a Post or Comment, the Post a Comment belongs to, *)
(* and the following relation of the users.  A user is a number of        *)
(* 1..MaxUsers; 0 is the anonymous user and the Post of no Comment.        *)
(***************************************************************************)
\* Users of the social-media API and of the blog.
MaxUsers == 2

\* Posts and Comments created over a behaviour.
MaxPosts == 2

\* StandardResultsSetPagination.page_size
PostPageSize == 5

\* FeedPagination.page_size
FeedPageSize == 10

Anonymous == 0

Users == 1..MaxUsers

Anyone == {Anonymous} \cup Users

\* A table of Post or Comment rows and the next identifier of its sequence.
EmptyTable == [next |-> 1, rows |-> <<>>]

\* rest_framework.permissions.SAFE_METHODS
SAFE_METHODS == {"GET", "HEAD", "OPTIONS"}

\* The HTTP method a router or URL pattern maps to the operation.
Method(op) ==
    CASE op \in {"list", "retrieve", "feed"} -> "GET"
      [] op \in {"create", "follow", "unfollow"} -> "POST"
      [] op = "update" -> "PUT"
      [] op = "partial_update" -> "PATCH"
      [] op = "destroy" -> "DELETE"

ViewSetOps == {"list", "retrieve", "create", "update", "partial_update", "destroy"}

SocialRequest(op, kind, user, pk, data) ==
    [op |-> op, kind |-> kind, user |-> user, pk |-> pk, data |-> data]

\* permissions.IsAuthenticatedOrReadOnly.has_permission
IsAuthenticatedOrReadOnly(req) ==
    Method(req.op) \in SAFE_METHODS \/ req.user # Anonymous

\* has_object_permission letting every authenticated user write.
has_object_permission_Anyone(req, obj) == TRUE

\* IsOwnerOrReadOnly.has_object_permission
has_object_permission(req, obj) ==
    IF Method(req.op) \in SAFE_METHODS THEN TRUE
    ELSE obj.author = req.user

\* The creation times a new Post can get: the clock has not run backwards
\* since the newest Post was created, and may not have advanced.  The views
\* read the creation time of no Comment, and the rows of Comments keep 0.
Stamps(rows) ==
    LET m == IF DOMAIN rows = {} THEN 0
             ELSE CHOOSE t \in {rows[i].created_at : i \in DOMAIN rows} :
                      \A i \in DOMAIN rows : rows[i].created_at <= t
    IN  {m, m + 1}

\* perform_create: serializer.save(author=self.request.user).  The row
\* holds the fields of the body with the requester as author; a Comment
\* holds its Post.
SavedBy(table, req, stamp) ==
    LET row == IF req.kind = "comment"
               THEN [author |-> req.user, content |-> req.data,
                     created_at |-> stamp, post |-> req.post]
               ELSE [author |-> req.user, content |-> req.data,
                     created_at |-> stamp]
    IN  [next |-> table.next + 1,
         rows |-> [i \in DOMAIN table.rows \cup {table.next} |->
                     IF i = table.next THEN row ELSE table.rows[i]]]

\* The outcomes of a request to a ModelViewSet with the permission classes
\* [IsAuthenticatedOrReadOnly, IsOwnerOrReadOnly]: the permission check of
\* the request, the lookup of the object, the permission check of the
\* object, the validation of the body (a blank content is refused, and so
\* is a Comment for a Post that does not exist), and the write to the
\* table.  What the deletion of a Post does to its Comments is PostDeleted.
Outcomes(table, req) ==
    LET rows == table.rows
        same(resp) == {[table |-> table, response |-> resp]}
        blank == \/ req.data = ""
                 \/ req.kind = "comment" /\ req.op = "create"
                       /\ req.post \notin DOMAIN posts.rows
    IN  IF ~IsAuthenticatedOrReadOnly(req)
        THEN {[table |-> table, response |-> Resp(st)] : st \in Refusals}
        ELSE IF req.op = "list"
        THEN same([Resp(200) EXCEPT
                      !.results = Take(IdSeq(DOMAIN rows), PostPageSize),
                      !.count = Cardinality(DOMAIN rows)])
        ELSE IF req.op = "create"
        THEN IF blank THEN same(Resp(400))
             ELSE {[table |-> SavedBy(table, req, stamp),
                    response |-> [Resp(201) EXCEPT !.id = table.next]] :
                      stamp \in IF req.kind = "post" THEN Stamps(rows) ELSE {0}}
        ELSE IF req.pk \notin DOMAIN rows THEN same(Resp(404))
        ELSE IF ~has_object_permission(req, rows[req.pk]) THEN same(Resp(403))
        ELSE IF req.op = "retrieve"
        THEN same([Resp(200) EXCEPT !.id = req.pk, !.data = rows[req.pk]])
        ELSE IF req.op = "destroy"
        THEN {[table |-> [table EXCEPT !.rows =
                             [i \in DOMAIN rows \ {req.pk} |-> rows[i]]],
               response |-> [Resp(204) EXCEPT !.id = req.pk]]}
        ELSE IF req.data = "" THEN same(Resp(400))
        ELSE {[table |-> [table EXCEPT !.rows[req.pk].content = req.data],
               response |-> [Resp(200) EXCEPT !.id = req.pk]]}

\* perform_destroy of a Post that the requester may delete, in the outcome
\* o of Outcomes: the Post and the Comments afterwards, and the response.
\* The model of Comment is not among the sources, and the deletion does
\* what the on_delete of its relation to Post says: it deletes the Comments
\* of the Post with it, keeps them without their Post, or is refused.  A
\* Post without Comments is deleted alone.
PostDeleted(o, pk) ==
    LET mine == {c \in DOMAIN comments.rows : comments.rows[c].post = pk}
        done(c) == [posts |-> o.table, comments |-> c, response |-> o.response]
    IN  IF mine = {} THEN {done(comments)}
        ELSE {CASE d = "CASCADE" ->
                     done([comments EXCEPT !.rows =
                             [c \in DOMAIN comments.rows \ mine |->
                                 comments.rows[c]]])
                [] d = "SET_NULL" ->
                     done([comments EXCEPT !.rows =
                             [c \in DOMAIN comments.rows |->
                                 IF c \in mine
                                 THEN [comments.rows[c] EXCEPT !.post = 0]
                                 ELSE comments.rows[c]]])
                [] d = "PROTECT" ->
                     [posts |-> posts, comments |-> comments,
                      response |-> Resp(500)] :
              d \in {"CASCADE", "SET_NULL", "PROTECT"}}

\* The Posts and Comments created so far.
Created == (posts.next - 1) + (comments.next - 1)

\* A request to PostViewSet (kind "post") or CommentViewSet (kind
\* "comment") with one of the operations ops and one of the bodies, for a
\* row of the table or for the identifier of no row; a new Comment is for
\* a Post of the table or for the identifier of no Post.
ViewSet(kind, ops, bodies) ==
    /\ pc = "idle"
    /\ \E op \in ops, user \in Anyone :
       \E pk \in IF op \in {"list", "create"} THEN {0}
                 ELSE IF kind = "post"
                 THEN DOMAIN posts.rows \cup {posts.next}
                 ELSE DOMAIN comments.rows \cup {comments.next} :
       \E data \in IF op \in {"create", "update", "partial_update"}
                   THEN bodies ELSE {""} :
       \E post \in IF kind = "comment" /\ op = "create"
                   THEN DOMAIN posts.rows \cup {posts.next} ELSE {0} :
         LET req == IF kind = "comment"
                    THEN [op |-> op, kind |-> kind, user |-> user, pk |-> pk,
                          data |-> data, post |-> post]
                    ELSE SocialRequest(op, kind, user, pk, data)
             table == IF kind = "post" THEN posts ELSE comments
         IN  /\ op = "create" => Created < MaxPosts
             /\ request' = req
             /\ \E o \in Outcomes(table, req) :
                  IF kind = "comment"
                  THEN /\ response' = o.response
                       /\ comments' = o.table
                       /\ UNCHANGED posts
                  ELSE IF op = "destroy" /\ o.table # posts
                  THEN \E d \in PostDeleted(o, pk) :
                         /\ response' = d.response
                         /\ posts' = d.posts
                         /\ comments' = d.comments
                  ELSE /\ response' = o.response
                       /\ posts' = o.table
                       /\ UNCHANGED comments
    /\ pc' = "responded"
    /\ UNCHANGED <<api, flight, following, blogPosts, emails, shelves>>

Contents == {"", "x", "y"}

PostViewSet == ViewSet("post", ViewSetOps, Contents)

CommentViewSet == ViewSet("comment", ViewSetOps, Contents)

\* POST /posts/ alone, with one content.
CreatePost == ViewSet("post", {"create"}, {"x"})

\* The names bound in the module accounts/views.py: its imports (lines 1-6)
\* and its classes.
AccountsNames ==
    {"generics", "permissions", "Response", "Token", "APIView", "CustomUser",
     "RegisterSerializer", "LoginSerializer", "UserSerializer",
     "RegisterView", "LoginView", "ProfileView", "FollowUserView",
     "UnfollowUserView"}

\* Those whom the user follows, and those who follow the user.
FollowingOf(rel, u) == {v \in Users : <<u, v>> \in rel}

FollowersOf(rel, u) == {v \in Users : <<v, u>> \in rel}

\* FollowUserView.post (add) and UnfollowUserView.post (~add) for an
\* authenticated user.  A name that the module does not bind raises
\* NameError where it is evaluated, and the request is answered 500.
FollowPost(rel, user, user_id, add) ==
    LET fail(r) == [following |-> r, response |-> Resp(500)]
    IN  IF user = user_id
        THEN IF "status" \in AccountsNames
             THEN [following |-> rel, response |-> Resp(400)]
             ELSE fail(rel)
        ELSE IF ~({"get_object_or_404", "User"} \subseteq AccountsNames)
        THEN fail(rel)
        ELSE IF user_id \notin Users
        THEN [following |-> rel, response |-> Resp(404)]
        ELSE LET new == IF add THEN rel \cup {<<user, user_id>>}
                        ELSE rel \ {<<user, user_id>>}
             IN  IF "status" \notin AccountsNames THEN fail(new)
                 ELSE [following |-> new,
                       response |-> [Resp(200) EXCEPT !.data =
                          [following_count |->
                               Cardinality(FollowingOf(new, user)),
                           target_followers_count |->
                               Cardinality(FollowersOf(new, user_id))]]]

\* A request to one of the two views; permission_classes = [IsAuthenticated].
Follows(op, add) ==
    /\ pc = "idle"
    /\ \E user \in Anyone, user_id \in 1..(MaxUsers + 1) :
         /\ request' = SocialRequest(op, "user", user, user_id, "")
         /\ IF user = Anonymous
            THEN /\ \E st \in Refusals : response' = Resp(st)
                 /\ UNCHANGED following
            ELSE LET o == FollowPost(following, user, user_id, add)
                 IN  /\ following' = o.following
                     /\ response' = o.response
    /\ pc' = "responded"
    /\ UNCHANGED <<api, flight, posts, comments, blogPosts, emails, shelves>>

\* POST follow/<int:user_id>/
FollowUser == Follows("follow", TRUE)

\* POST unfollow/<int:user_id>/
UnfollowUser == Follows("unfollow", FALSE)

\* get_queryset without the filter on the users followed.
FeedPosts_Everyone(user) == DOMAIN posts.rows

\* FeedView.get_queryset: the Posts of the users followed.
FeedPosts(user) ==
    {i \in DOMAIN posts.rows : posts.rows[i].author \in FollowingOf(following, user)}

\* order_by('-created_at'): the orders of a set of Posts that are newest
\* first; Posts of one creation time come in any order.
NewestFirst(S) ==
    {seq \in [1..Cardinality(S) -> S] :
        /\ \A m, n \in 1..Cardinality(S) : m # n => seq[m] # seq[n]
        /\ \A m, n \in 1..Cardinality(S) :
             m < n => posts.rows[seq[m]].created_at >= posts.rows[seq[n]].created_at}

\* GET feed/ (FeedView): permission_classes = [IsAuthenticated], the first
\* page of the queryset.
Feed ==
    /\ pc = "idle"
    /\ \E user \in Anyone :
         /\ request' = SocialRequest("feed", "post", user, 0, "")
         /\ IF user = Anonymous
            THEN \E st \in Refusals : response' = Resp(st)
            ELSE \E seq \in NewestFirst(FeedPosts(user)) :
                   response' = [Resp(200) EXCEPT
                                   !.results = Take(seq, FeedPageSize),
                                   !.count = Len(seq)]
    /\ pc' = "responded"
    /\ UNCHANGED <<api, others>>

\* The social-media API with no record; nobody follows anybody.
InitSocial ==
    /\ authors = AuthorNames
    /\ nextAuthorId = Cardinality(DOMAIN AuthorNames) + 1
    /\ books = NoBooks
    /\ nextId = 1
    /\ now = StartYear
    /\ request = NoRequest
    /\ response = NoResponse
    /\ pc = "idle"
    /\ flight = <<>>
    /\ following = {}
    /\ posts = EmptyTable
    /\ comments = EmptyTable
    /\ blogPosts = <<>>
    /\ emails = <<>>
    /\ shelves = <<>>

\* Posts and Comments are created, read, changed and deleted.
NextSocial == PostViewSet \/ CommentViewSet \/ Deliver

SpecSocial == InitSocial /\ [][NextSocial]_vars

\* The feed and the follow views begin where the viewsets do: no request
\* of the API has put a row into a following set.
InitFollow == InitSocial

\* Users publish Posts, follow and unfollow each other and read their feed.
NextFollow == CreatePost \/ FollowUser \/ UnfollowUser \/ Feed \/ Deliver

SpecFollow == InitFollow /\ [][NextFollow]_vars

(***************************************************************************)
(* django_blog: blog/views.py, blog/forms.py, blog/models.py.  A Post row  *)
(* holds its author and its content (title and content, both required);    *)
(* emails gives the email address of every User.                           *)
(***************************************************************************)
\* The names bound in the module blog/views.py: its imports (lines 2-12)
\* and its own definitions.
BlogNames ==
    {"render", "redirect", "get_object_or_404", "reverse_lazy",
     "login_required", "timezone", "messages", "LoginRequiredMixin",
     "UserPassesTestMixin", "ListView", "DetailView", "CreateView",
     "UpdateView", "DeleteView", "Post", "Comment", "PostForm",
     "CommentForm", "ProfileForm", "datetime", "home", "register", "profile"}

BlogRequest(op, method, user, pk, data) ==
    [op |-> op, method |-> method, user |-> user, pk |-> pk, data |-> data]

\* The statuses of a Post form that has been saved: the redirect to the
\* Post, or 500 when the tags or the URL of the Post cannot be resolved
\* (PostForm.save sets instance.tags after instance.save(), and the Post
\* model of models.py has neither tags nor get_absolute_url).
Saved == {302, 500}

\* test_func letting every logged-in user pass.
test_func_Anyone(user, post) == TRUE

\* PostUpdateView.test_func, PostDeleteView.test_func
test_func(user, post) == user = post.author

\* LoginRequiredMixin and UserPassesTestMixin of the update and delete
\* views: 302 to the login page, 404 for no such Post, 403 for a user who
\* fails test_func, 200 for a user who may go on.
Dispatch(user, pk) ==
    IF user = Anonymous THEN 302
    ELSE IF pk \notin DOMAIN blogPosts.rows THEN 404
    ELSE IF ~test_func(user, blogPosts.rows[pk]) THEN 403
    ELSE 200

\* PostCreateView: GET shows the form; POST validates it, sets the author
\* to the requester and saves.
BlogCreatePost ==
    /\ pc = "idle"
    /\ blogPosts.next <= MaxPosts
    /\ \E user \in Anyone, method \in {"GET", "POST"} :
       \E data \in IF method = "POST" THEN Contents ELSE {""} :
         /\ request' = BlogRequest("post-create", method, user, 0, data)
         /\ IF user = Anonymous
            THEN response' = Resp(302) /\ UNCHANGED blogPosts
            ELSE IF method = "GET" \/ data = ""
            THEN response' = Resp(200) /\ UNCHANGED blogPosts
            ELSE /\ blogPosts' =
                      [next |-> blogPosts.next + 1,
                       rows |-> [i \in DOMAIN blogPosts.rows \cup {blogPosts.next} |->
                                   IF i = blogPosts.next
                                   THEN [author |-> user, content |-> data]
                                   ELSE blogPosts.rows[i]]]
                 /\ \E st \in Saved :
                      response' = [Resp(st) EXCEPT !.id = blogPosts.next]
    /\ pc' = "responded"
    /\ UNCHANGED <<api, flight, following, posts, comments, emails, shelves>>

\* PostUpdateView: form_valid sets the author to the requester and saves
\* the fields of the form.
BlogUpdatePost ==
    /\ pc = "idle"
    /\ \E user \in Anyone, method \in {"GET", "POST"}, pk \in 1..MaxPosts :
       \E data \in IF method = "POST" THEN Contents ELSE {""} :
         LET st == Dispatch(user, pk)
         IN  /\ request' = BlogRequest("post-update", method, user, pk, data)
             /\ IF st # 200
                THEN response' = Resp(st) /\ UNCHANGED blogPosts
                ELSE IF method = "GET" \/ data = ""
                THEN response' = Resp(200) /\ UNCHANGED blogPosts
                ELSE /\ blogPosts' =
                          [blogPosts EXCEPT !.rows[pk] =
                              [author |-> user, content |-> data]]
                     /\ \E sv \in Saved : response' = [Resp(sv) EXCEPT !.id = pk]
    /\ pc' = "responded"
    /\ UNCHANGED <<api, flight, following, posts, comments, emails, shelves>>

\* The names of the URL patterns of blog/urls.py.
BlogUrlNames == {"home", "register", "login", "logout", "profile"}

\* PostDeleteView: GET shows the confirmation page.  POST resolves
\* success_url = reverse_lazy('post-list') and then deletes the Post: with
\* no URL pattern of that name the reverse raises NoReverseMatch, and the
\* request is answered 500 with the Post kept.
BlogDeletePost ==
    /\ pc = "idle"
    /\ \E user \in Anyone, method \in {"GET", "POST"}, pk \in 1..MaxPosts :
         LET st == Dispatch(user, pk)
         IN  /\ request' = BlogRequest("post-delete", method, user, pk, "")
             /\ IF st # 200
                THEN response' = Resp(st) /\ UNCHANGED blogPosts
                ELSE IF method = "GET"
                THEN response' = Resp(200) /\ UNCHANGED blogPosts
                ELSE IF "post-list" \notin BlogUrlNames
                THEN response' = Resp(500) /\ UNCHANGED blogPosts
                ELSE /\ blogPosts' =
                          [blogPosts EXCEPT !.rows =
                              [i \in DOMAIN blogPosts.rows \ {pk} |->
                                  blogPosts.rows[i]]]
                     /\ response' = [Resp(302) EXCEPT !.id = pk]
    /\ pc' = "responded"
    /\ UNCHANGED <<api, flight, following, posts, comments, emails, shelves>>

\* PostAdmin: a Post added, changed or deleted through the admin site by a
\* member of staff.  The form of the admin is built from the model: the
\* author is any User, whoever fills the form in, and the content is
\* required.
PostAdmin ==
    /\ pc = "idle"
    /\ \/ \E author \in Users, content \in Contents \ {""} :
          \E i \in DOMAIN blogPosts.rows \cup {blogPosts.next} :
             /\ i = blogPosts.next => blogPosts.next <= MaxPosts
             /\ blogPosts' =
                   [next |-> IF i = blogPosts.next THEN blogPosts.next + 1
                             ELSE blogPosts.next,
                    rows |-> [x \in DOMAIN blogPosts.rows \cup {i} |->
                                IF x = i
                                THEN [author |-> author, content |-> content]
                                ELSE blogPosts.rows[x]]]
       \/ \E i \in DOMAIN blogPosts.rows :
             blogPosts' = [blogPosts EXCEPT !.rows =
                             [x \in DOMAIN blogPosts.rows \ {i} |->
                                 blogPosts.rows[x]]]
    /\ UNCHANGED <<api, request, response, pc>>
    /\ UNCHANGED <<flight, following, posts, comments, emails, shelves>>

\* The email addresses given in the forms.
EmailInputs ==
    {<<"a", "@", "b">>, <<"A", "@", "b">>, <<"b", "@", "b">>}

\* No email key in the POST data.
NoEmail == <<>>

\* UserRegistrationForm.clean_email: email__iexact finds a User.
EmailTaken(email) == \E u \in DOMAIN emails : IExact(emails[u], email)

\* register: the form is built from UserRegistrationForm, a name that the
\* module blog/views.py does not bind, so that the view raises NameError; a
\* valid form would store the User with the email in lower case.
register ==
    /\ pc = "idle"
    /\ \E method \in {"GET", "POST"} :
       \E email \in IF method = "POST" THEN EmailInputs ELSE {NoEmail} :
         /\ request' = BlogRequest("register", method, Anonymous, 0, email)
         /\ IF "UserRegistrationForm" \notin BlogNames
            THEN response' = Resp(500) /\ UNCHANGED emails
            ELSE IF method = "GET" \/ EmailTaken(email)
                    \/ Cardinality(DOMAIN emails) >= MaxUsers
            THEN response' = Resp(200) /\ UNCHANGED emails
            ELSE /\ emails' =
                      [u \in DOMAIN emails \cup {Cardinality(DOMAIN emails) + 1} |->
                          IF u \in DOMAIN emails THEN emails[u] ELSE Lower(email)]
                 /\ response' = Resp(302)
    /\ pc' = "responded"
    /\ UNCHANGED <<api, flight, following, posts, comments, blogPosts, shelves>>

\* The files uploaded as profile_picture: none, an image, a file that is
\* no image.
Pictures == {"none", "image", "broken"}

\* ProfileForm.is_valid: bio and profile_picture are optional, and a file
\* given as profile_picture must be an image.
ProfileFormValid(picture) == picture # "broken"

\* profile (login_required): POST with a valid ProfileForm stores the email
\* of the POST data, or the present one when the data has none.
profile ==
    /\ pc = "idle"
    /\ \E user \in {Anonymous} \cup DOMAIN emails, method \in {"GET", "POST"} :
       \E email \in IF method = "POST" THEN EmailInputs \cup {NoEmail}
                    ELSE {NoEmail} :
       \E picture \in IF method = "POST" THEN Pictures ELSE {"none"} :
         /\ request' = BlogRequest("profile", method, user, 0,
                                   [email |-> email, profile_picture |-> picture])
         /\ IF user = Anonymous
            THEN response' = Resp(302) /\ UNCHANGED emails
            ELSE IF method = "GET" \/ ~ProfileFormValid(picture)
            THEN response' = Resp(200) /\ UNCHANGED emails
            ELSE /\ emails' = [emails EXCEPT ![user] =
                                  IF email = NoEmail THEN emails[user] ELSE email]
                 /\ response' = Resp(302)
    /\ pc' = "responded"
    /\ UNCHANGED <<api, flight, following, posts, comments, blogPosts, shelves>>

\* The blog with no Post.
InitBlog ==
    /\ authors = AuthorNames
    /\ nextAuthorId = Cardinality(DOMAIN AuthorNames) + 1
    /\ books = NoBooks
    /\ nextId = 1
    /\ now = StartYear
    /\ request = NoRequest
    /\ response = NoResponse
    /\ pc = "idle"
    /\ flight = <<>>
    /\ following = {}
    /\ posts = <<>>
    /\ comments = <<>>
    /\ blogPosts = EmptyTable
    /\ emails = <<>>
    /\ shelves = <<>>

NextBlog ==
    \/ BlogCreatePost
    \/ BlogUpdatePost
    \/ BlogDeletePost
    \/ PostAdmin
    \/ Deliver

SpecBlog == InitBlog /\ [][NextBlog]_vars

\* The Users of the blog, no two with the same email address up to case.
Accounts ==
    {f \in [Users -> EmailInputs] :
        \A u, v \in Users : u # v => ~IExact(f[u], f[v])}

InitAccounts ==
    /\ authors = AuthorNames
    /\ nextAuthorId = Cardinality(DOMAIN AuthorNames) + 1
    /\ books = NoBooks
    /\ nextId = 1
    /\ now = StartYear
    /\ request = NoRequest
    /\ response = NoResponse
    /\ pc = "idle"
    /\ flight = <<>>
    /\ following = {}
    /\ posts = <<>>
    /\ comments = <<>>
    /\ blogPosts = EmptyTable
    /\ emails \in Accounts
    /\ shelves = <<>>

NextAccounts == register \/ profile \/ Deliver

SpecAccounts == InitAccounts /\ [][NextAccounts]_vars

(***************************************************************************)
(* The book views of bookshelf/views.py (advanced_features_and_security)   *)
(* and of relationship_app/views.py (django-models).  shelves gives the    *)
(* Book table of each of the two applications; a Book row holds its title. *)
(***************************************************************************)
\* The permission each view requires of the user.
Required(app, view) ==
    IF app = "bookshelf"
    THEN CASE view = "book_list" -> "bookshelf.can_view"
           [] view = "create_book" -> "bookshelf.can_create"
           [] view = "edit_book" -> "bookshelf.can_edit"
           [] view = "delete_book" -> "bookshelf.can_delete"
    ELSE CASE view = "list_books" -> "none"
           [] view = "add_book" -> "relationship_app.can_add_book"
           [] view = "edit_book" -> "relationship_app.can_change_book"
           [] view = "delete_book" -> "relationship_app.can_delete_book"

BookViews(app) ==
    IF app = "bookshelf"
    THEN {"book_list", "create_book", "edit_book", "delete_book"}
    ELSE {"list_books", "add_book", "edit_book", "delete_book"}

\* The permission sets of the users who make the requests.
PermissionSets(app) ==
    LET all == {Required(app, v) : v \in BookViews(app)} \ {"none"}
    IN  {{}, all} \cup {{q} : q \in all}

ShelfRequest(app, view, method, user, perms, pk, data) ==
    [op |-> view, app |-> app, method |-> method, user |-> user,
     perms |-> perms, pk |-> pk, data |-> data]

\* The decorators of a view: login_required redirects the anonymous user
\* (relationship_app alone), permission_required(..., raise_exception=True)
\* answers 403; 200 lets the request through to the view.
Decorators(req) ==
    IF req.app = "relationship_app" /\ req.op # "list_books"
       /\ req.user = Anonymous
    THEN 302
    ELSE IF Required(req.app, req.op) \notin req.perms \cup {"none"}
    THEN 403
    ELSE 200

Added(table, title) ==
    [next |-> table.next + 1,
     rows |-> [i \in DOMAIN table.rows \cup {table.next} |->
                 IF i = table.next THEN [title |-> title] ELSE table.rows[i]]]

Removed(table, pk) ==
    [table EXCEPT !.rows = [i \in DOMAIN table.rows \ {pk} |-> table.rows[i]]]

\* The names of the URL patterns of bookshelf/urls.py.
BookshelfUrlNames == {"view_books", "create_book", "edit_book", "delete_book"}

\* The names of the URL patterns of relationship_app/urls.py.
RelationshipUrlNames == {"list_books", "library-detail", "login", "logout", "register"}

\* redirect(to) of django.shortcuts with the name of a URL pattern: the
\* status of the response, a redirect when a pattern has the name and the
\* NoReverseMatch the reverse raises otherwise.
redirect(names, to) == IF to \in names THEN 302 ELSE 500

\* book_list, create_book, edit_book and delete_book of bookshelf/views.py.
\* create_book looks the Author up and creates the Book with the title of
\* the POST data; edit_book saves the title; delete_book deletes whatever
\* the method of the request.  Each ends with redirect("book_list") once
\* the Book is written.
BookshelfView(table, req) ==
    LET same(st) == [table |-> table, response |-> Resp(st)]
        found == req.pk \in DOMAIN table.rows
    IN  CASE req.op = "book_list" -> same(200)
          [] req.op = "create_book" ->
               IF req.method # "POST" THEN same(200)
               ELSE IF ~req.data.author THEN same(404)
               ELSE [table |-> Added(table, req.data.title),
                     response |-> Resp(redirect(BookshelfUrlNames, "book_list"))]
          [] req.op = "edit_book" ->
               IF ~found THEN same(404)
               ELSE IF req.method # "POST" THEN same(200)
               ELSE [table |-> [table EXCEPT !.rows[req.pk].title = req.data.title],
                     response |-> Resp(redirect(BookshelfUrlNames, "book_list"))]
          [] req.op = "delete_book" ->
               IF ~found THEN same(404)
               ELSE [table |-> Removed(table, req.pk),
                     response |-> Resp(redirect(BookshelfUrlNames, "book_list"))]

\* list_books, add_book, edit_book and delete_book of
\* relationship_app/views.py.  The BookForm refuses a blank title;
\* delete_book deletes on POST and shows the confirmation page otherwise.
RelationshipView(table, req) ==
    LET same(st) == [table |-> table, response |-> Resp(st)]
        found == req.pk \in DOMAIN table.rows
    IN  CASE req.op = "list_books" -> same(200)
          [] req.op = "add_book" ->
               IF req.method # "POST" \/ req.data.title = "" \/ ~req.data.author
               THEN same(200)
               ELSE [table |-> Added(table, req.data.title),
                     response |-> Resp(redirect(RelationshipUrlNames, "list_books"))]
          [] req.op = "edit_book" ->
               IF ~found THEN same(404)
               ELSE IF req.method # "POST" \/ req.data.title = ""
                       \/ ~req.data.author
               THEN same(200)
               ELSE [table |-> [table EXCEPT !.rows[req.pk].title = req.data.title],
                     response |-> Resp(redirect(RelationshipUrlNames, "list_books"))]
          [] req.op = "delete_book" ->
               IF ~found THEN same(404)
               ELSE IF req.method = "POST"
               THEN [table |-> Removed(table, req.pk),
                     response |-> Resp(redirect(RelationshipUrlNames, "list_books"))]
               ELSE same(200)

\* The bodies of the forms: a title, and an author who exists or does not.
ShelfBodies == [title : Contents, author : BOOLEAN]

NoShelfBody == [title |-> "", author |-> FALSE]

\* The Books created so far in the two applications.
Shelved == (shelves["bookshelf"].next - 1) + (shelves["relationship_app"].next - 1)

\* A request to a book view of one of the two applications.
BookView(app) ==
    /\ pc = "idle"
    /\ \E view \in BookViews(app), method \in {"GET", "POST"}, user \in {Anonymous, 1} :
       \E perms \in IF user = Anonymous THEN {{}} ELSE PermissionSets(app) :
       \E pk \in IF view \in {"edit_book", "delete_book"} THEN 1..MaxBooks ELSE {0} :
       \E data \in IF method = "POST" /\ view \notin {"delete_book", "book_list", "list_books"}
                   THEN ShelfBodies ELSE {NoShelfBody} :
         LET req == ShelfRequest(app, view, method, user, perms, pk, data)
             st == Decorators(req)
             o == IF app = "bookshelf" THEN BookshelfView(shelves[app], req)
                  ELSE RelationshipView(shelves[app], req)
         IN  /\ request' = req
             /\ IF st # 200
                THEN response' = Resp(st) /\ UNCHANGED shelves
                ELSE /\ o.table.next > shelves[app].next => Shelved < MaxBooks
                     /\ response' = o.response
                     /\ shelves' = [shelves EXCEPT ![app] = o.table]
    /\ pc' = "responded"
    /\ UNCHANGED <<api, flight, following, posts, comments, blogPosts, emails>>

Bookshelf == BookView("bookshelf")

RelationshipApp == BookView("relationship_app")

\* The two applications with no Book.
InitShelves ==
    /\ authors = AuthorNames
    /\ nextAuthorId = Cardinality(DOMAIN AuthorNames) + 1
    /\ books = NoBooks
    /\ nextId = 1
    /\ now = StartYear
    /\ request = NoRequest
    /\ response = NoResponse
    /\ pc = "idle"
    /\ flight = <<>>
    /\ following = {}
    /\ posts = <<>>
    /\ comments = <<>>
    /\ blogPosts = <<>>
    /\ emails = <<>>
    /\ shelves = [app \in {"bookshelf", "relationship_app"} |-> EmptyTable]

NextShelves == Bookshelf \/ RelationshipApp \/ Deliver

SpecShelves == InitShelves /\ [][NextShelves]_vars

(***************************************************************************)
(* The catalogue API with two requests handled at once.  Each query and    *)
(* each write of a handler is a step of its own; flight gives, for each of *)
(* the two clients, the request being handled and what the handler has     *)
(* read so far.                                                            *)
(***************************************************************************)
Clients == {1, 2}

NoFlight ==
    [op |-> "none", stage |-> "idle", auth |-> FALSE, pk |-> 0, data |-> NoBody,
     status |-> 0, books |-> <<>>, total_books |-> 0, publication_years |-> <<>>]

\* The bodies of the create requests made at once.
RaceBodies ==
    {Body(BookFields, t, y, a) :
        t \in {<<"a">>, <<" ", "a">>}, y \in {ClassicYear - 1, StartYear},
        a \in {1, 2}}

\* The create requests that are being handled.
Creating == {c \in Clients : flight[c].op = "create" /\ flight[c].stage # "done"}

\* POST /books/create/ arrives: permission_classes = [IsAuthenticated].
ReceiveCreate ==
    /\ \E c \in Clients, auth \in BOOLEAN, data \in RaceBodies :
         /\ flight[c].stage = "idle"
         /\ nextId + Cardinality(Creating) <= MaxBooks
         /\ \E st \in IF auth THEN {0} ELSE Refusals :
              flight' = [flight EXCEPT ![c] =
                            [NoFlight EXCEPT !.op = "create", !.auth = auth,
                                             !.data = data, !.status = st,
                                             !.stage = IF auth THEN "received"
                                                       ELSE "done"]]
    /\ UNCHANGED <<api, request, response, pc>>
    /\ UNCHANGED <<following, posts, comments, blogPosts, emails, shelves>>

\* serializer.is_valid(raise_exception=True): the fields and the
\* unique-together validator, against the store as it is now.
is_valid ==
    /\ \E c \in Clients :
         /\ flight[c].op = "create"
         /\ flight[c].stage = "received"
         /\ LET errs == SerializerErrors(flight[c].data, FALSE, BlankBook, {})
            IN  flight' = [flight EXCEPT ![c] =
                   IF errs # {}
                   THEN [@ EXCEPT !.stage = "done", !.status = 400]
                   ELSE [@ EXCEPT !.stage = "validated"]]
    /\ UNCHANGED <<api, request, response, pc>>
    /\ UNCHANGED <<following, posts, comments, blogPosts, emails, shelves>>

\* The INSERT never failing on the unique constraint.
IntegrityError_Never(attrs) == FALSE

\* The unique constraint of the Book table (Meta.unique_together), checked
\* by the database when the row is inserted.
IntegrityError(attrs) ==
    \E i \in DOMAIN books :
        books[i].title = attrs.title /\ books[i].author = attrs.author

\* perform_create: serializer.save() inserts the row in one statement; the
\* IntegrityError of a row refused by the database is not caught, and the
\* request is answered 500.
save ==
    /\ \E c \in Clients :
         /\ flight[c].op = "create"
         /\ flight[c].stage = "validated"
         /\ IF IntegrityError(Merged(flight[c].data, BlankBook))
            THEN /\ flight' = [flight EXCEPT ![c].stage = "done",
                                             ![c].status = 500]
                 /\ UNCHANGED <<books, nextId>>
            ELSE /\ books' = Inserted(flight[c].data)
                 /\ nextId' = nextId + 1
                 /\ flight' = [flight EXCEPT ![c].stage = "done",
                                             ![c].status = 201,
                                             ![c].pk = nextId]
    /\ UNCHANGED <<authors, nextAuthorId, now, request, response, pc>>
    /\ UNCHANGED <<following, posts, comments, blogPosts, emails, shelves>>

\* The entries of the books list of a serialized Author.
Entries(ids) ==
    [n \in 1..Len(ids) |->
        [id |-> ids[n], publication_year |-> books[ids[n]].publication_year]]

\* GET /authors/<pk>/ arrives, and super().retrieve() runs: get_object and
\* the serialization of the Author with the Books read by the prefetch, in
\* the order of Book.Meta.ordering = ['title'].
super_retrieve ==
    /\ \E c \in Clients, pk \in AuthorInputs :
         /\ flight[c].stage = "idle"
         /\ LET found == GetAuthorStatus("author-detail", pk)
            IN  IF found # 200
                THEN flight' = [flight EXCEPT ![c] =
                        [NoFlight EXCEPT !.op = "retrieve_author", !.pk = pk,
                                         !.stage = "done", !.status = found]]
                ELSE \E ids \in OrderedBy(BooksOf(pk), DefaultOrdering) :
                       flight' = [flight EXCEPT ![c] =
                          [NoFlight EXCEPT !.op = "retrieve_author", !.pk = pk,
                                           !.stage = "serialized",
                                           !.books = Entries(ids)]]
    /\ UNCHANGED <<api, request, response, pc>>
    /\ UNCHANGED <<following, posts, comments, blogPosts, emails, shelves>>

\* instance = self.get_object(); books_count = instance.books.count()
books_count ==
    /\ \E c \in Clients :
         /\ flight[c].op = "retrieve_author"
         /\ flight[c].stage = "serialized"
         /\ flight' = [flight EXCEPT
                          ![c].stage = "counted",
                          ![c].total_books = Cardinality(BooksOf(flight[c].pk))]
    /\ UNCHANGED <<api, request, response, pc>>
    /\ UNCHANGED <<following, posts, comments, blogPosts, emails, shelves>>

\* The query of the publication years, run when books_count > 0, and the
\* response.
publication_years ==
    /\ \E c \in Clients :
         /\ flight[c].op = "retrieve_author"
         /\ flight[c].stage = "counted"
         /\ flight' = [flight EXCEPT
                          ![c].stage = "done",
                          ![c].status = 200,
                          ![c].publication_years =
                              IF flight[c].total_books > 0
                              THEN distinct(values_list(BooksOf(flight[c].pk)))
                              ELSE <<>>]
    /\ UNCHANGED <<api, request, response, pc>>
    /\ UNCHANGED <<following, posts, comments, blogPosts, emails, shelves>>

\* The client takes the response.
Collect ==
    /\ \E c \in Clients :
         /\ flight[c].stage = "done"
         /\ flight' = [flight EXCEPT ![c] = NoFlight]
    /\ UNCHANGED <<api, request, response, pc>>
    /\ UNCHANGED <<following, posts, comments, blogPosts, emails, shelves>>

InitRace ==
    /\ authors = AuthorNames
    /\ nextAuthorId = Cardinality(DOMAIN AuthorNames) + 1
    /\ books = NoBooks
    /\ nextId = 1
    /\ now = StartYear
    /\ request = NoRequest
    /\ response = NoResponse
    /\ pc = "idle"
    /\ flight = [c \in Clients |-> NoFlight]
    /\ following = {}
    /\ posts = <<>>
    /\ comments = <<>>
    /\ blogPosts = <<>>
    /\ emails = <<>>
    /\ shelves = <<>>

NextRace ==
    \/ ReceiveCreate
    \/ is_valid
    \/ save
    \/ super_retrieve
    \/ books_count
    \/ publication_years
    \/ Collect

SpecRace == InitRace /\ [][NextRace]_vars

(***************************************************************************)
(* Properties of the mutating endpoints, checked under Spec.               *)
(***************************************************************************)
MutatingOps == {"create", "update", "partial_update", "destroy"}

Answered == pc = "responded"

\* C2: the store changes only in the step of a mutating request made by an
\* authenticated actor; a create, update or delete request without
\* authentication is answered 401 or 403 and leaves every Book as it was.
C2_MutationNeedsAuthentication ==
    [][/\ books' # books => request'.op \in MutatingOps /\ request'.auth
       /\ (pc = "idle" /\ request'.op \in MutatingOps /\ ~request'.auth)
            => response'.status \in {401, 403} /\ books' = books]_vars

\* An unauthenticated delete addressed to a stored Book has been refused.
C2_Witness ==
    /\ Answered
    /\ request.op = "destroy"
    /\ ~request.auth
    /\ request.pk \in DOMAIN books
    /\ response.status \in {401, 403}

\* Some stored Book outside exclude has this title and this author.
C4_PairHeld(title, author, exclude) ==
    \E i \in DOMAIN books \ exclude :
        books[i].title = title /\ books[i].author = author

\* The fields of the request other than publication_year are valid: the
\* title is not blank, the author exists, the (title, author) pair is free,
\* and an update addresses a stored Book.
C3_OthersValid ==
    LET d == request.data
        target == IF request.op = "create" THEN BlankBook ELSE books[request.pk]
        self == IF request.op = "create" THEN {response.id} ELSE {request.pk}
    IN  /\ request.op # "create" => request.pk \in DOMAIN books
        /\ request.op # "partial_update" => DOMAIN d = BookFields
        /\ "publication_year" \in DOMAIN d
        /\ "title" \in DOMAIN d => Strip(d.title) # <<>>
        /\ "author" \in DOMAIN d => d.author \in DOMAIN authors
        /\ ~C4_PairHeld(IF "title" \in DOMAIN d THEN Strip(d.title) ELSE target.title,
                        IF "author" \in DOMAIN d THEN d.author ELSE target.author,
                        self)

\* The verdict C3 prescribes for an answered request.
C3_Verdict ==
    LET year == request.data.publication_year
        stored == IF request.op = "create" THEN response.id ELSE request.pk
    IN  IF year > now
        THEN response.status = 400 /\ "publication_year" \in response.errors
        ELSE /\ response.status \in {200, 201}
             /\ stored \in DOMAIN books
             /\ books[stored].publication_year = year

\* C3: an authenticated create or update whose other fields are valid is
\* rejected with 400 and an error on publication_year when the year exceeds
\* the current year, and otherwise succeeds and stores that year.
C3_YearValidation ==
    (/\ Answered
     /\ request.op \in {"create", "update", "partial_update"}
     /\ request.auth
     /\ C3_OthersValid) => C3_Verdict

\* The create half of C3, which the code satisfies.
C3_YearValidationOnCreate ==
    (Answered /\ request.op = "create" /\ request.auth /\ C3_OthersValid)
        => C3_Verdict

\* A request would leave two Books with one (title, author) pair.
C4_WouldCollide(req) ==
    LET d == req.data
    IN  IF req.op = "create"
        THEN /\ {"title", "author"} \subseteq DOMAIN d
             /\ C4_PairHeld(Strip(d.title), d.author, {})
        ELSE /\ req.pk \in DOMAIN books
             /\ C4_PairHeld(IF "title" \in DOMAIN d THEN Strip(d.title)
                            ELSE books[req.pk].title,
                            IF "author" \in DOMAIN d THEN d.author
                            ELSE books[req.pk].author,
                            {req.pk})

C4_UniquePair ==
    \A i, j \in DOMAIN books :
        (books[i].title = books[j].title /\ books[i].author = books[j].author)
            => i = j

\* C4: no two distinct Books ever share title and author, and a create or
\* update that would produce such a pair is rejected and changes nothing.
C4_TitleAuthorUnique ==
    /\ []C4_UniquePair
    /\ [][(/\ pc = "idle"
           /\ request'.op \in {"create", "update", "partial_update"}
           /\ C4_WouldCollide(request'))
            => response'.status \notin {200, 201} /\ books' = books]_vars

\* An authenticated create of a pair already stored has been refused by the
\* unique-together check, the submitted title differing from the stored one
\* only by the blank that the serializer trims.
C4_Witness ==
    /\ Answered
    /\ request.op = "create"
    /\ request.auth
    /\ response.status = 400
    /\ response.errors = {"non_field_errors"}
    /\ request.data.title = <<" ", "a">>
    /\ \E i \in DOMAIN books : books[i].title = <<"a">>

\* C13: the step of a create or update request that is answered 400 leaves
\* every Book and every Author as it was.
C13_RejectedWritesNothing ==
    [][(/\ pc = "idle"
        /\ request'.op \in {"create", "update", "partial_update"}
        /\ response'.status = 400)
          => books' = books /\ authors' = authors /\ nextId' = nextId]_vars

\* A create rejected for its year alone, over a store that holds a Book.
C13_Witness ==
    /\ Answered
    /\ request.op = "create"
    /\ request.auth
    /\ response.status = 400
    /\ response.errors = {"publication_year"}
    /\ books # NoBooks

\* C14: an authenticated delete of a stored Book is answered 200 with the
\* id, title and author of the Book, removes that Book and nothing else, and
\* the Book is in no later state of the store.
C14_DeleteRemoves ==
    [][(/\ pc = "idle"
        /\ request'.op = "destroy"
        /\ request'.auth
        /\ request'.pk \in DOMAIN books)
          => /\ response'.status = 200
             /\ response'.id = request'.pk
             /\ response'.data = books[request'.pk]
             /\ books' = [i \in DOMAIN books \ {request'.pk} |-> books[i]]
             /\ authors' = authors]_vars

\* The body of a PATCH is valid for the Book it addresses: no blank title,
\* no year after the current one, an existing author, and a (title, author)
\* pair no other Book holds.
C15_ValidBody(req) ==
    LET d == req.data
        old == books[req.pk]
    IN  /\ "title" \in DOMAIN d => Strip(d.title) # <<>>
        /\ "publication_year" \in DOMAIN d => d.publication_year <= now
        /\ "author" \in DOMAIN d => d.author \in DOMAIN authors
        /\ ~C4_PairHeld(IF "title" \in DOMAIN d THEN Strip(d.title) ELSE old.title,
                        IF "author" \in DOMAIN d THEN d.author ELSE old.author,
                        {req.pk})

\* C15: an authenticated PATCH of a stored Book with a valid body is
\* answered 200, sets the supplied fields of that Book to the supplied
\* values, and changes nothing else.
C15_PatchSetsSuppliedFields ==
    [][(/\ pc = "idle"
        /\ request'.op = "partial_update"
        /\ request'.auth
        /\ request'.pk \in DOMAIN books
        /\ C15_ValidBody(request'))
          => /\ response'.status = 200
             /\ response'.id = request'.pk
             /\ DOMAIN books' = DOMAIN books
             /\ \A i \in DOMAIN books \ {request'.pk} : books'[i] = books[i]
             /\ \A f \in BookFields :
                   books'[request'.pk][f] =
                       IF f \notin DOMAIN request'.data THEN books[request'.pk][f]
                       ELSE IF f = "title" THEN Strip(request'.data[f])
                       ELSE request'.data[f]
             /\ authors' = authors]_vars

(***************************************************************************)
(* Properties of the list endpoint, checked under SpecList.                *)
(***************************************************************************)
Listed == Answered /\ request.op = "list"

\* The Books of a response.
Returned == {response.results[n] : n \in 1..Len(response.results)}

Year(i) == books[i].publication_year

\* The filter parameters the documentation of the endpoint names (views.py
\* 155-167): the year range is documented as the key publication_year_range
\* given twice, minimum then maximum.
C1_Keys ==
    {"title", "author_name", "author_id", "publication_year",
     "publication_year__gt", "publication_year__lt", "publication_year__gte",
     "publication_year__lte", "publication_year_range", RangeMinKey,
     RangeMaxKey, "search", "recent_only", "classic_books"}

C1_IsNumeral(v) == v # <<>> /\ \A n \in 1..Len(v) : IsDigit(v[n])

\* A valid value: text that is not empty and has no blank at either end, a
\* decimal numeral for the numeric keys, true or false for the flags.
C1_ValidValue(k, vs) ==
    CASE k \in {"title", "author_name", "search"} ->
            Len(vs) = 1 /\ vs[1] # <<>> /\ Strip(vs[1]) = vs[1]
      [] k \in {"recent_only", "classic_books"} ->
            Len(vs) = 1 /\ Lower(vs[1]) \in {TrueWord, <<"f", "a", "l", "s", "e">>}
      [] k = "publication_year_range" ->
            Len(vs) = 2 /\ C1_IsNumeral(vs[1]) /\ C1_IsNumeral(vs[2])
      [] OTHER -> Len(vs) = 1 /\ C1_IsNumeral(vs[1])

\* The predicate a supplied parameter stands for.
C1_Satisfies(i, k, vs) ==
    CASE k = "title" -> IContains(books[i].title, vs[1])
      [] k = "author_name" -> IContains(AuthorName(i), vs[1])
      [] k = "search" ->
            IContains(books[i].title, vs[1]) \/ IContains(AuthorName(i), vs[1])
      [] k = "author_id" -> books[i].author = DecVal(vs[1])
      [] k = "publication_year" -> Year(i) = DecVal(vs[1])
      [] k = "publication_year__gt" -> Year(i) > DecVal(vs[1])
      [] k = "publication_year__lt" -> Year(i) < DecVal(vs[1])
      [] k = "publication_year__gte" -> Year(i) >= DecVal(vs[1])
      [] k = "publication_year__lte" -> Year(i) <= DecVal(vs[1])
      [] k = "publication_year_range" ->
            DecVal(vs[1]) <= Year(i) /\ Year(i) <= DecVal(vs[2])
      [] k = RangeMinKey -> Year(i) >= DecVal(vs[1])
      [] k = RangeMaxKey -> Year(i) <= DecVal(vs[1])
      [] k = "recent_only" ->
            Lower(vs[1]) = TrueWord => Year(i) >= now - RecentSpan
      [] OTHER -> Lower(vs[1]) = TrueWord => Year(i) < ClassicYear

C1_Applies(params) ==
    /\ DOMAIN params \subseteq C1_Keys
    /\ \A k \in DOMAIN params : C1_ValidValue(k, params[k])

C1_Exact(params) ==
    /\ response.status = 200
    /\ Returned = {i \in DOMAIN books :
                      \A k \in DOMAIN params : C1_Satisfies(i, k, params[k])}

\* C1: for every combination of the documented filter parameters with valid
\* values, the Books returned are exactly the stored Books that satisfy
\* every supplied predicate.
C1_FiltersConjoin ==
    (Listed /\ C1_Applies(request.params)) => C1_Exact(request.params)

\* C1 without the documented form of the year range, the bounds of the range
\* given under the keys the filter reads: the code satisfies it.
C1_FiltersConjoinSuffixedRange ==
    (/\ Listed
     /\ C1_Applies(request.params)
     /\ ~Has(request.params, "publication_year_range"))
        => C1_Exact(request.params)

C5_OnlySearch == Listed /\ DOMAIN request.params = {"search"}

C5_Matches(i, s) ==
    IContains(books[i].title, s) \/ IContains(AuthorName(i), s)

\* C5 as claimed: for every non-empty search value s the list returns
\* exactly the Books whose title or author's name contains s, letter case
\* aside.
C5_SearchExact ==
    (C5_OnlySearch /\ Get(request.params, "search") # <<>>)
        => /\ response.status = 200
           /\ Returned = {i \in DOMAIN books :
                             C5_Matches(i, Get(request.params, "search"))}

\* C5 as amended: the search value is matched after its leading and trailing
\* blanks are removed; a value that is nothing but blanks selects every Book.
C5_SearchTrimmed ==
    C5_OnlySearch
        => LET t == Strip(Get(request.params, "search"))
           IN  /\ response.status = 200
               /\ Returned = {i \in DOMAIN books : t # <<>> => C5_Matches(i, t)}

\* A search that ends in a blank has returned a Book that does not contain
\* the value as given, and has left another Book out.
C5_Witness ==
    /\ C5_OnlySearch
    /\ Get(request.params, "search") = <<"B", " ">>
    /\ \E i \in Returned : ~C5_Matches(i, <<"B", " ">>)
    /\ Returned # DOMAIN books

\* A term of an ordering expression that names an allow-listed field, with
\* or without one minus sign.
C6_AllowedTerm(term) ==
    \/ Len(term) = 1 /\ term[1] \in ordering_fields
    \/ Len(term) = 2 /\ term[1] = "-" /\ term[2] \in ordering_fields

C6_Expression == Terms(Get(request.params, "ordering"))

C6_Applies ==
    /\ Listed
    /\ response.status = 200
    /\ Has(request.params, "ordering")
    /\ \A n \in 1..Len(C6_Expression) : C6_AllowedTerm(C6_Expression[n])

C6_Tied(i, j) ==
    \A n \in 1..Len(C6_Expression) :
        /\ ~TermLess(i, j, C6_Expression[n])
        /\ ~TermLess(j, i, C6_Expression[n])

\* C6: under an ordering expression of allow-listed fields the result is
\* sorted on the requested keys, and Books equal on all of them come in
\* ascending identifier order.
C6_SortedTiesById ==
    C6_Applies
        => \A p, q \in 1..Len(response.results) :
              p < q =>
                  /\ ~Before(response.results[q], response.results[p], C6_Expression)
                  /\ C6_Tied(response.results[p], response.results[q])
                        => response.results[p] < response.results[q]

\* C6 without the tie rule, which the code satisfies.
C6_SortedOnKeys ==
    C6_Applies
        => \A p, q \in 1..Len(response.results) :
              p < q => ~Before(response.results[q], response.results[p], C6_Expression)

\* C8: a list request with author=<id of a stored Author> returns exactly
\* the Books of that Author.
C8_AuthorKeyFilters ==
    (/\ Listed
     /\ DOMAIN request.params = {"author"}
     /\ DecVal(Get(request.params, "author")) \in DOMAIN authors)
        => /\ response.status = 200
           /\ Returned = {i \in DOMAIN books :
                             books[i].author = DecVal(Get(request.params, "author"))}

\* The request without one of its parameters.
Without(params, k) == [x \in DOMAIN params \ {k} |-> params[x]]

C9_NumericKeys ==
    {"author_id", "publication_year", "publication_year__gt",
     "publication_year__lt", "publication_year__gte", "publication_year__lte"}

C9_UnknownKeys == {"colour"}

\* Digits with an optional sign before them.
C9_Signed(d) ==
    \/ C1_IsNumeral(d)
    \/ Len(d) > 1 /\ d[1] \in {"-", "+"} /\ C1_IsNumeral(Tail(d))

\* Digits with at most one decimal point among them and an optional sign
\* before them.
C9_Mantissa(d) ==
    LET unsigned(x) ==
            \/ C1_IsNumeral(x)
            \/ \E k \in 1..Len(x) :
                  /\ x[k] = "."
                  /\ C1_IsNumeral(SubSeq(x, 1, k - 1) \o SubSeq(x, k + 1, Len(x)))
    IN  \/ unsigned(d)
        \/ Len(d) > 1 /\ d[1] \in {"-", "+"} /\ unsigned(Tail(d))

\* A decimal number: a mantissa, and an exponent or none; underscores among
\* the characters count for nothing.
C9_IsNumber(v) ==
    LET t == SelectSeq(v, LAMBDA c : c # "_")
    IN  \/ C9_Mantissa(t)
        \/ \E k \in 2..(Len(t) - 1) :
              /\ t[k] \in {"e", "E"}
              /\ C9_Mantissa(SubSeq(t, 1, k - 1))
              /\ C9_Signed(SubSeq(t, k + 1, Len(t)))

\* A value that is given and is no decimal number, blanks around it aside.
C9_NotANumber(v) == v # <<>> /\ ~C9_IsNumber(Strip(v))

\* C9 as claimed: an unrecognized key, and a numeric key whose value is
\* empty or not a number, give a 200 response with the result of the same
\* request without that parameter.
C9_NeverFails ==
    Listed =>
        \A k \in DOMAIN request.params :
            (\/ k \in C9_UnknownKeys
             \/ k \in C9_NumericKeys
                   /\ \/ Get(request.params, k) = <<>>
                      \/ C9_NotANumber(Get(request.params, k)))
                => /\ response.status = 200
                   /\ response \in ListResponses(Without(request.params, k))

\* C9 as amended: an unrecognized key and a numeric key with an empty value
\* are skipped, the response being one of the same request without the
\* parameter; a numeric key whose value is not a number is answered 400 with
\* an error under that key, and one whose value is a number, -1 and 1e0
\* among them, gives no error under that key.
C9_SkippedOrRejected ==
    Listed =>
        \A k \in DOMAIN request.params :
            /\ (k \in C9_UnknownKeys \/ (k \in C9_NumericKeys /\ Get(request.params, k) = <<>>))
                  => response \in ListResponses(Without(request.params, k))
            /\ (k \in C9_NumericKeys /\ C9_NotANumber(Get(request.params, k)))
                  => response.status = 400 /\ k \in response.errors
            /\ (k \in C9_NumericKeys /\ C9_IsNumber(Strip(Get(request.params, k))))
                  => k \notin response.errors

\* A numeric filter with an empty value has been skipped beside a title
\* filter that kept some Books and dropped others.
C9_Witness ==
    /\ Listed
    /\ DOMAIN request.params = {"publication_year", "title"}
    /\ Get(request.params, "publication_year") = <<>>
    /\ response.status = 200
    /\ Returned # {}
    /\ Returned # DOMAIN books

\* C18: the year range given as the documentation gives it, the key
\* publication_year_range twice, minimum m then maximum M, returns exactly
\* the Books with m <= publication_year <= M, none when m > M.
C18_RangeInclusive ==
    (/\ Listed
     /\ DOMAIN request.params = {"publication_year_range"}
     /\ C1_ValidValue("publication_year_range", request.params.publication_year_range))
        => LET m == DecVal(request.params.publication_year_range[1])
               M == DecVal(request.params.publication_year_range[2])
           IN  /\ response.status = 200
               /\ Returned = {i \in DOMAIN books : m <= Year(i) /\ Year(i) <= M}

\* The same with the two bounds under the keys the filter reads.
C18_SuffixedRangeInclusive ==
    (/\ Listed
     /\ DOMAIN request.params = {RangeMinKey, RangeMaxKey}
     /\ C1_IsNumeral(Get(request.params, RangeMinKey))
     /\ C1_IsNumeral(Get(request.params, RangeMaxKey)))
        => LET m == DecVal(Get(request.params, RangeMinKey))
               M == DecVal(Get(request.params, RangeMaxKey))
           IN  /\ response.status = 200
               /\ Returned = {i \in DOMAIN books : m <= Year(i) /\ Year(i) <= M}

(***************************************************************************)
(* Properties of the flags of get_queryset, checked under SpecFlags.       *)
(***************************************************************************)
\* The word true in any letter case.
C17_IsTrue(v) ==
    /\ Len(v) = 4
    /\ v[1] \in {"t", "T"}
    /\ v[2] \in {"r", "R"}
    /\ v[3] \in {"u", "U"}
    /\ v[4] \in {"e", "E"}

C17_On(k) == k \in DOMAIN request.params /\ C17_IsTrue(Get(request.params, k))

\* C17: recent_only = true (any case) keeps the Books of the last ten years,
\* classic_books = true (any case) the Books before 1950, and any other
\* value of either flag changes nothing: with no other parameter, the Books
\* returned are exactly those the flags that are on allow.
C17_FlagsFilter ==
    (Listed /\ DOMAIN request.params \subseteq {"recent_only", "classic_books"})
        => /\ response.status = 200
           /\ Returned =
                 {i \in DOMAIN books :
                     /\ C17_On("recent_only") => Year(i) >= now - RecentSpan
                     /\ C17_On("classic_books") => Year(i) < ClassicYear}

\* recent_only=TRUE keeps the Book of the tenth year back and drops the one
\* of the eleventh.
C17_Witness ==
    /\ Listed
    /\ DOMAIN request.params = {"recent_only"}
    /\ Get(request.params, "recent_only") = <<"T", "R", "U", "E">>
    /\ \E i \in Returned : Year(i) = now - RecentSpan
    /\ \E i \in DOMAIN books \ Returned : Year(i) = now - RecentSpan - 1

(***************************************************************************)
(* Properties of get_ordering, checked under SpecOrdering.                 *)
(***************************************************************************)
\* The ordering expression of the request, empty when the key is absent.
C7_Expression ==
    IF Has(request.params, "ordering") THEN Get(request.params, "ordering")
    ELSE <<>>

\* The field of a term is what follows its leading minus signs; the term is
\* kept when that is one word of the allow-list.
C7_Kept(term, allowed) ==
    \E n \in 1..Len(term) :
        /\ \A m \in 1..(n - 1) : term[m] = "-"
        /\ n = Len(term)
        /\ term[n] \in allowed

C7_KeptBook(term) == C7_Kept(term, ordering_fields)

C7_KeptAuthor(term) == C7_Kept(term, AuthorOrderingFields)

\* C7: get_ordering returns the terms of the expression whose field is in
\* the allow-list, in their original order, and the default ordering (title;
\* name for the author list) when the parameter is absent, empty or blank or
\* when no term is kept.
C7_DropsUnknownFields ==
    /\ (Answered /\ request.op = "get_ordering")
          => LET kept == SelectSeq(Terms(Strip(C7_Expression)), C7_KeptBook)
             IN  response.ordering = IF kept = <<>> THEN << <<"title">> >> ELSE kept
    /\ (/\ Answered
        /\ request.op = "order_authors"
        /\ SelectSeq(Terms(Strip(C7_Expression)), C7_KeptAuthor) = <<>>)
          => response.ordering = << <<"name">> >>

\* get_ordering has dropped the middle term of three and kept the other two
\* in their order.
C7_Witness ==
    /\ Answered
    /\ request.op = "get_ordering"
    /\ C7_Expression = <<"id", ",", "bogus", ",", "title">>
    /\ response.ordering = << <<"id">>, <<"title">> >>

\* An allow-listed field name with at most one minus sign before it.
C25_SingleMinus(term) ==
    \/ Len(term) = 1 /\ term[1] \in ordering_fields
    \/ Len(term) = 2 /\ term[1] = "-" /\ term[2] \in ordering_fields

\* C25: every term of the list returned by BookListView.get_ordering is an
\* allow-listed field name (title, publication_year, author__name, id)
\* optionally preceded by exactly one minus sign, whatever the ordering
\* parameter, terms with several leading minus signs and empty terms
\* included.
C25_TermsAllowListed ==
    (Answered /\ request.op = "get_ordering")
        => \A n \in 1..Len(response.ordering) :
              C25_SingleMinus(response.ordering[n])

\* What holds of the code: empty terms are dropped, and every term returned
\* is an allow-listed field name preceded by any number of minus signs.
C25_TermsAllowListedAfterMinuses ==
    (Answered /\ request.op = "get_ordering")
        => \A n \in 1..Len(response.ordering) :
              /\ response.ordering[n] # <<>>
              /\ C7_KeptBook(response.ordering[n])

\* get_ordering has been given an empty term, a lone minus sign and a term
\* with one minus sign, and has returned the last alone.
C25_Witness ==
    /\ Answered
    /\ request.op = "get_ordering"
    /\ C7_Expression = <<",", "-", ",", "-", "id">>
    /\ response.ordering = << <<"-", "id">> >>

(***************************************************************************)
(* Properties of the detail endpoint, checked under SpecDetail.            *)
(***************************************************************************)
C10_Related == response.related

\* C10: related_books holds at most 5 Books, each by the author of the Book
\* requested and none the Book itself, in ascending title order, and a Book
\* of that author left out sorts after every one included.
C10_RelatedBooks ==
    (Answered /\ request.op = "retrieve" /\ response.status = 200)
        => LET b == request.pk
           IN  /\ Len(C10_Related) <= 5
               /\ \A n \in 1..Len(C10_Related) :
                     /\ C10_Related[n] \in DOMAIN books
                     /\ books[C10_Related[n]].author = books[b].author
                     /\ C10_Related[n] # b
               /\ \A n \in 1..(Len(C10_Related) - 1) :
                     StrLess(books[C10_Related[n]].title,
                             books[C10_Related[n + 1]].title)
               /\ \A x \in DOMAIN books :
                     (/\ x # b
                      /\ books[x].author = books[b].author
                      /\ \A n \in 1..Len(C10_Related) : C10_Related[n] # x)
                        => /\ Len(C10_Related) = 5
                           /\ StrLess(books[C10_Related[5]].title, books[x].title)

\* A Book with six others by its author has been retrieved: five of them are
\* related, one is left out.
C10_Witness ==
    /\ Answered
    /\ request.op = "retrieve"
    /\ response.status = 200
    /\ Len(response.related) = 5
    /\ Cardinality({x \in DOMAIN books :
                       x # request.pk /\ books[x].author = books[request.pk].author}) = 6

(***************************************************************************)
(* Properties of the author endpoints and of the Author-Book relation,     *)
(* checked under SpecAdmin (C11, C16) and SpecAuthors (C12).               *)
(***************************************************************************)
C11_Owned == {i \in DOMAIN books : books[i].author = request.pk}

\* C11: the detail response of an existing Author is a 200 whose
\* statistics.total_books is the number of Books of that Author and whose
\* statistics.publication_years lists the distinct publication years of
\* those Books in strictly ascending order (empty when there is no Book).
C11_AuthorStatistics ==
    (Answered /\ request.op = "retrieve_author" /\ request.pk \in DOMAIN authors)
        => LET years == response.publication_years
           IN  /\ response.status = 200
               /\ response.total_books = Cardinality(C11_Owned)
               /\ \A k \in 1..(Len(years) - 1) : years[k] < years[k + 1]
               /\ {years[k] : k \in 1..Len(years)}
                     = {books[i].publication_year : i \in C11_Owned}

\* An Author with two Books of one year is read while another Author is in
\* the store.
C11_Witness ==
    /\ Answered
    /\ request.op = "retrieve_author"
    /\ response.total_books = 2
    /\ Len(response.publication_years) = 1
    /\ \E a \in DOMAIN authors : a # request.pk

C12_Flag == Get(request.params, "has_books")

C12_Owners == {a \in DOMAIN authors : \E i \in DOMAIN books : books[i].author = a}

C12_Listed == {response.results[k] : k \in 1..Len(response.results)}

\* C12: the author list with has_books=true holds exactly the Authors that
\* own a Book, each once; with has_books=false exactly the Authors that own
\* none; so the two are disjoint and together hold every Author.
C12_HasBooks ==
    (/\ Answered
     /\ request.op = "list_authors"
     /\ "has_books" \in DOMAIN request.params
     /\ DOMAIN request.params \subseteq {"has_books", "ordering"}
     /\ C12_Flag \in {TrueWord, <<"f", "a", "l", "s", "e">>})
        => /\ response.status = 200
           /\ Len(response.results) = Cardinality(C12_Listed)
           /\ C12_Listed = IF C12_Flag = TrueWord THEN C12_Owners
                           ELSE DOMAIN authors \ C12_Owners

\* has_books=true lists an Author of two Books once and leaves out an
\* Author of none.
C12_Witness ==
    /\ Answered
    /\ request.op = "list_authors"
    /\ DOMAIN request.params = {"has_books"}
    /\ C12_Flag = TrueWord
    /\ Len(response.results) = 1
    /\ Cardinality(BooksOf(response.results[1])) = 2
    /\ Cardinality(DOMAIN authors) = 2

C16_Referenced == \A i \in DOMAIN books : books[i].author \in DOMAIN authors

\* C16: every Book's author is an Author of the store, and the step that
\* deletes an Author deletes exactly the Books of that Author.
C16_CascadeKeepsReferences ==
    /\ []C16_Referenced
    /\ [][authors' # authors
            => books' = [i \in {j \in DOMAIN books :
                                   books[j].author \in DOMAIN authors'} |-> books[i]]]_vars

\* Two Books were added, Author 1 was deleted, and one Book, of Author 2,
\* is left.
C16_Witness ==
    /\ DOMAIN authors = {2}
    /\ nextId = 3
    /\ Cardinality(DOMAIN books) = 1

(***************************************************************************)
(* Properties of the paged list and of the metadata block, checked under   *)
(* SpecPages.                                                              *)
(***************************************************************************)
\* The Books that match a request of the paged reads: its only filter is
\* title.
C19_Matching ==
    {i \in DOMAIN books :
        "title" \in DOMAIN request.params
            => IContains(books[i].title, Get(request.params, "title"))}

\* The step in which the client goes from one page to the next.
C19_Turn ==
    /\ pc = "responded" /\ pc' = "responded"
    /\ request.op = "list" /\ request'.op = "list"
    /\ response.status = 200 /\ response'.status = 200

\* What C19 says of two pages read in turn: they share no Book, every Book
\* of the first sorts no later than every Book of the second, and when
\* they are the first and the last page they hold every matching Book.
C19_TurnPartitions ==
    /\ Returned \cap Returned' = {}
    /\ \A i \in Returned, j \in Returned' : ~Before(j, i, response.ordering)
    /\ (PageNumber(request.params) = 1 /\ PageSize * 2 >= response.count)
          => Returned \cup Returned' = C19_Matching

\* The results of the answered page are the records at the positions
\* PageSize * (p - 1) + 1 to PageSize * p of an order of the matching Books
\* that the ordering of the request allows.
C19_Slice ==
    LET p == PageNumber(request.params)
    IN  \E seq \in OrderedBy(C19_Matching, response.ordering) :
          /\ Len(response.results)
                = Min(PageSize * p, Len(seq)) - PageSize * (p - 1)
          /\ \A n \in 1..Len(response.results) :
                response.results[n] = seq[PageSize * (p - 1) + n]

C19_PagesInTurnById ==
    /\ [](Listed => Len(response.results) <= PageSize)
    /\ [][(C19_Turn /\ "ordering" \in DOMAIN request.params)
             => C19_TurnPartitions]_vars

C20_ListAnswered ==
    Answered /\ request.op \in {"list", "list_authors"} /\ response.status = 200

\* The metadata block of the book list over the empty store.
C20_BookReference == BookMetadata([count |-> 0, results |-> <<>>])

\* C20 as stated: the metadata block of a list response is the same for
\* every request to the endpoint and every store: it is the block the empty
\* store gives.
C20_MetadataStatic ==
    C20_ListAnswered
        => response.metadata = IF request.op = "list" THEN C20_BookReference
                               ELSE AuthorMetadata

\* A metadata block without its total_count.
C20_Options(md) == [k \in DOMAIN md \ {"total_count"} |-> md[k]]

\* The request asks for a page that the matching Books do not fill: a page
\* after the first one of which no Book is left.
C20_PastTheEnd ==
    /\ PageNumber(request.params) > 1
    /\ PageSize * (PageNumber(request.params) - 1) >= Cardinality(C19_Matching)

\* C20 as amended: the block of a list response answered 200 is the same
\* for every request and store but for total_count of the book list, which
\* is the number of Books that match the request, all pages together; the
\* book list is answered 404, without a metadata block, exactly when the
\* page asked for is past the end of the result.
C20_MetadataStaticButCount ==
    /\ C20_ListAnswered
          => IF request.op = "list"
             THEN /\ C20_Options(response.metadata)
                       = C20_Options(C20_BookReference)
                  /\ response.metadata.total_count = Cardinality(C19_Matching)
             ELSE response.metadata = AuthorMetadata
    /\ Listed => /\ response.status \in {200, 404}
                 /\ response.status = 404 <=> C20_PastTheEnd
                 /\ response.status = 404 => response.metadata = NoBody

\* The second page of a result of 21 Books: one record, total_count 21.
C20_Witness ==
    /\ Listed
    /\ response.status = 200
    /\ PageNumber(request.params) = 2
    /\ Len(response.results) = 1
    /\ response.metadata.total_count = PageSize + 1

(***************************************************************************)
(* Properties of PostViewSet and CommentViewSet, checked under SpecSocial. *)
(***************************************************************************)
\* The rows of table t that the step changes or removes.
C21_Touched(t, u) ==
    {i \in DOMAIN t.rows : i \notin DOMAIN u.rows \/ u.rows[i] # t.rows[i]}

\* The step is that of an unsafe request for row i of the kind, made by the
\* author of the row.
C21_ByAuthor(kind, t, i) ==
    /\ pc' = "responded"
    /\ request'.kind = kind
    /\ request'.pk = i
    /\ Method(request'.op) \notin SAFE_METHODS
    /\ request'.user = t.rows[i].author

\* The step is that of the request with which the author of the Post of
\* Comment i deletes that Post.
C21_WithPost(i) ==
    /\ pc' = "responded"
    /\ request'.kind = "post"
    /\ request'.op = "destroy"
    /\ request'.pk = comments.rows[i].post
    /\ request'.pk \in DOMAIN posts.rows
    /\ request'.user = posts.rows[request'.pk].author
    /\ request'.pk \notin DOMAIN posts'.rows

C22_Reached(req, op) ==
    /\ req.op = op
    /\ req.user \in Users
    /\ req.pk \in Users \ {req.user}

\* The Posts whose author is in the following set of user u.
C22_Followed(u) ==
    {i \in DOMAIN posts.rows : <<u, posts.rows[i].author>> \in following}

\* The answered feed holds exactly the Posts of the users the requester
\* follows, each once, newest first, and none of the requester's own.
C22_FeedExact ==
    (Answered /\ request.op = "feed" /\ response.status = 200)
        => LET res == response.results
           IN  /\ {res[n] : n \in 1..Len(res)} = C22_Followed(request.user)
               /\ \A m, n \in 1..Len(res) :
                     m < n => /\ res[m] # res[n]
                              /\ posts.rows[res[m]].created_at
                                     >= posts.rows[res[n]].created_at
               /\ \A n \in 1..Len(res) :
                     posts.rows[res[n]].author # request.user

C23_NoSelfFollow ==
    /\ [](\A u \in Users : <<u, u>> \notin following)
    /\ []((/\ Answered
           /\ request.op \in {"follow", "unfollow"}
           /\ request.user = request.pk)
             => response.status = 400)
    /\ [][(/\ pc' = "responded"
           /\ request'.op \in {"follow", "unfollow"}
           /\ request'.user = request'.pk)
             => following' = following]_vars

\* What holds of the code: nobody is in their own following set, and a
\* request whose target is the requester changes no following set.
C23_SelfTargetChangesNothing ==
    /\ [](\A u \in Users : <<u, u>> \notin following)
    /\ [][(/\ pc' = "responded"
           /\ request'.op \in {"follow", "unfollow"}
           /\ request'.user = request'.pk)
             => following' = following]_vars

\* The counts of a 200 response are the sizes of the two sets after the step.
C28_Counts ==
    /\ response.status = 200
    /\ response.data.following_count =
          Cardinality(FollowingOf(following, request.user))
    /\ response.data.target_followers_count =
          Cardinality(FollowersOf(following, request.pk))

\* C28: a follow request adds the target to the requester's following set
\* and an unfollow request removes it, so that following a user already
\* followed and unfollowing a user not followed change nothing and a follow
\* undone by an unfollow restores both sets; either is answered 200 with the
\* sizes of the requester's following set and of the target's followers set
\* after the step.
C28_FollowUnfollow ==
    /\ []((Answered /\ C22_Reached(request, "follow"))
             => <<request.user, request.pk>> \in following /\ C28_Counts)
    /\ []((Answered /\ C22_Reached(request, "unfollow"))
             => <<request.user, request.pk>> \notin following /\ C28_Counts)
    /\ [][/\ (pc' = "responded" /\ C22_Reached(request', "follow"))
             => following' = following \cup {<<request'.user, request'.pk>>}
          /\ (pc' = "responded" /\ C22_Reached(request', "unfollow"))
             => following' = following \ {<<request'.user, request'.pk>>}]_vars

(***************************************************************************)
(* Properties of the Post views of the blog, checked under SpecBlog.       *)
(***************************************************************************)
\* C24: a Post of the blog is changed or removed only in the step of an
\* update or delete request made by its author, and the author of a Post
\* stays the one it was created with.  PostAdmin violates it.
C24_AuthorAloneWrites ==
    [][/\ \A i \in C21_Touched(blogPosts, blogPosts') :
            /\ pc' = "responded"
            /\ request'.op \in {"post-update", "post-delete"}
            /\ request'.pk = i
            /\ request'.user = blogPosts.rows[i].author
       /\ \A i \in DOMAIN blogPosts.rows \cap DOMAIN blogPosts'.rows :
            blogPosts'.rows[i].author = blogPosts.rows[i].author]_vars

\* C24, amended: in the step of a request to the Post views a Post is
\* changed or removed only when the request is an update or delete request
\* made by its author, and the step leaves the author of every Post as it
\* was.  (Staff write any Post, its author included, in the admin site.)
C24_AuthorAloneWritesInViews ==
    [][pc' = "responded"
         => /\ \A i \in C21_Touched(blogPosts, blogPosts') :
                 /\ request'.op \in {"post-update", "post-delete"}
                 /\ request'.pk = i
                 /\ request'.user = blogPosts.rows[i].author
            /\ \A i \in DOMAIN blogPosts.rows \cap DOMAIN blogPosts'.rows :
                 blogPosts'.rows[i].author = blogPosts.rows[i].author]_vars

\* The author of a Post has given it a new content, and the store holds a
\* Post of another user.
C24_Witness ==
    /\ Answered
    /\ request.op = "post-update"
    /\ request.method = "POST"
    /\ request.user # Anonymous
    /\ request.pk \in DOMAIN blogPosts.rows
    /\ response.status \in Saved
    /\ blogPosts.rows[request.pk] = [author |-> request.user, content |-> "y"]
    /\ \E i \in DOMAIN blogPosts.rows : blogPosts.rows[i].author # request.user

(***************************************************************************)
(* Properties of the accounts of the blog, checked under SpecAccounts.     *)
(***************************************************************************)
\* C29: no two distinct users have email addresses that are equal when
\* compared without regard to letter case.
C29_EmailsUnique ==
    \A u, v \in DOMAIN emails : u # v => ~IExact(emails[u], emails[v])

(***************************************************************************)
(* Properties of the book views of bookshelf and relationship_app, checked *)
(* under SpecShelves.                                                      *)
(***************************************************************************)
\* The Books of the application that the step removes.
C30_Deleted(app) == DOMAIN shelves[app].rows \ DOMAIN shelves'[app].rows

\* The step is that of a POST to delete_book of the application, made by a
\* user who holds its delete permission.
C30_PermittedPost(app) ==
    /\ pc' = "responded"
    /\ request'.app = app
    /\ request'.op = "delete_book"
    /\ request'.method = "POST"
    /\ Required(app, "delete_book") \in request'.perms

\* C30: no GET request to a book view of bookshelf or of relationship_app
\* changes the set of stored Books, and a Book is removed only by a POST to
\* delete_book made by a user who holds the delete permission.
C30_GetChangesNothing ==
    [][\A app \in {"bookshelf", "relationship_app"} :
          /\ (pc' = "responded" /\ request'.method = "GET")
                => DOMAIN shelves'[app].rows = DOMAIN shelves[app].rows
          /\ C30_Deleted(app) # {} => C30_PermittedPost(app)]_vars

\* What holds of relationship_app: its GET requests change no Book and its
\* Books are removed by a permitted POST to delete_book alone; and of
\* bookshelf: a Book is removed by a permitted request to delete_book alone.
C30_GetChangesNothingInRelationshipApp ==
    [][/\ (pc' = "responded" /\ request'.method = "GET")
             => shelves'["relationship_app"] = shelves["relationship_app"]
       /\ C30_Deleted("relationship_app") # {}
             => C30_PermittedPost("relationship_app")
       /\ C30_Deleted("bookshelf") # {}
             => /\ request'.op = "delete_book"
                /\ "bookshelf.can_delete" \in request'.perms]_vars

\* A GET to delete_book of relationship_app by a user who holds the delete
\* permission has been answered with the confirmation page, the Book kept.
C30_Witness ==
    /\ Answered
    /\ request.app = "relationship_app"
    /\ request.op = "delete_book"
    /\ request.method = "GET"
    /\ response.status = 200
    /\ request.pk \in DOMAIN shelves["relationship_app"].rows

(***************************************************************************)
(* Properties of requests handled at once, checked under SpecRace.         *)
(***************************************************************************)
\* The (title, author) pair of the Book a create request asks for.
C26_Pair(c) ==
    LET attrs == Merged(flight[c].data, BlankBook)
    IN  <<attrs.title, attrs.author>>

\* C26: whatever the interleaving of two create requests that carry the
\* same (title, author), the store holds at most one Book with that pair,
\* and at most one of the two requests is answered 201.
C26_OneCreateWins ==
    /\ \A i, j \in DOMAIN books :
          (books[i].title = books[j].title /\ books[i].author = books[j].author)
              => i = j
    /\ \A c, d \in Clients :
          (/\ c # d
           /\ flight[c].op = "create" /\ flight[d].op = "create"
           /\ C26_Pair(c) = C26_Pair(d)
           /\ flight[c].status = 201)
              => flight[d].status # 201

\* Two create requests with the same pair have both passed validation
\* before either wrote: one is answered 201, the other 500.
C26_Witness ==
    /\ flight[1].op = "create" /\ flight[2].op = "create"
    /\ C26_Pair(1) = C26_Pair(2)
    /\ flight[1].status = 201
    /\ flight[2].status = 500
    /\ Cardinality(DOMAIN books) = 1

\* The years of the entries of a books list, each once, ascending.
C27_Years(entries) ==
    IdSeq({entries[n].publication_year : n \in 1..Len(entries)})

\* C27: the statistics of an author detail response are those of its own
\* books list, also when Books are created while the request is handled:
\* total_books is the number of entries and publication_years the sorted
\* distinct years of the entries.
C27_OneSnapshot ==
    \A c \in Clients :
        (/\ flight[c].op = "retrieve_author"
         /\ flight[c].stage = "done"
         /\ flight[c].status = 200)
            => /\ flight[c].total_books = Len(flight[c].books)
               /\ flight[c].publication_years = C27_Years(flight[c].books)

\* What holds of the code: the books list, the count and the years are
\* read one after the other, each from the store as it is at that step, so
\* that with Books only created the list holds no more entries than
\* total_books counts, and every year of an entry is among the years.
C27_ReadInTurn ==
    \A c \in Clients :
        (/\ flight[c].op = "retrieve_author"
         /\ flight[c].stage = "done"
         /\ flight[c].status = 200)
            => /\ Len(flight[c].books) <= flight[c].total_books
               /\ flight[c].total_books > 0 =>
                    \A n \in 1..Len(flight[c].books) :
                       \E k \in 1..Len(flight[c].publication_years) :
                          flight[c].publication_years[k]
                              = flight[c].books[n].publication_year

====
